---- MODULE Spec2Model ----
(***************************************************************************)
(* A model of the PR scheduler (dhanushlnaik/PRsScheduler): the label      *)
(* classifier of the PR import job, the two month aggregators (the API     *)
(* server's event-count aggregator and the chart job's hybrid aggregator)  *)
(* and the chart population job with its combined 'all' collections.       *)
(*                                                                         *)
(* Strings are TLA+ strings; TLC evaluates Len, SubSeq and \o on them, so  *)
(* includes(), startsWith(), toLowerCase() and the regular expressions are *)
(* computed character by character.                                        *)
(***************************************************************************)
EXTENDS Integers, Sequences, FiniteSets, TLC

VARIABLES
    pc,             \* position of the modelled job or handler
    title,          \* classifier input: pr.title
    githubLabels,   \* classifier input: pr.githubLabels (raw GitHub label names)
    kind,           \* classifier input: the specType ("EIP", "ERC", "RIP")
    refinedLabels,  \* processRawLabels: refinedLabels of the stored raw-label document
    customLabels,   \* main: customLabels of the stored PR document
    prs,            \* aggregators: the documents PR.find(query).lean() returned
    now,            \* aggregators: the clock Date.now() reads
    graph1Data,     \* API server: data of the latest /api/graph1 response
    graph1Prev,     \* API server: data of the response before it
    chartData,      \* chart job: chartData of populateChartCollection
    prStore,        \* database: the PR collections eipprs, ercprs, ripprs
    rawStore,       \* database: the raw-label collections of the three specTypes
    prCharts,       \* database: eipsPRCharts, ercsPRCharts, ripsPRCharts, allPRCharts
    customCharts,   \* database: the four custom-label chart collections
    rawCharts,      \* database: the four raw-label chart collections
    response,       \* API server: the response of the latest graph request
    aggCalls,       \* API server: the specTypes the aggregator was invoked with
    pipeline,       \* scheduler: position of every run of runJobPipeline
    child,          \* scheduler: the child process of every job of every run
    github,         \* import job: the pull requests GitHub serves, of all repositories
    snapStore,      \* database: the three monthly snapshot collections
    apiFetch,       \* contributor job: the state of one call of fetchGitHubAPI
    statsStore,     \* database: repository_stats
    contribStore    \* database: contributors

vars == <<pc, title, githubLabels, kind, refinedLabels, customLabels,
          prs, now, graph1Data, graph1Prev, chartData,
          prStore, rawStore, prCharts, customCharts, rawCharts,
          response, aggCalls, pipeline, child, github,
          snapStore, apiFetch, statsStore, contribStore>>

(***************************************************************************)
(* Bounds of the model.                                                    *)
(***************************************************************************)
MaxLabels == 2

\* All sequences over S of length at most n.
SeqsUpTo(S, n) == UNION {[1..k -> S] : k \in 0..n}

Range(s) == {s[i] : i \in 1..Len(s)}

(***************************************************************************)
(* JavaScript string operations.                                           *)
(***************************************************************************)
UpperCaseLetters == "ABCDEFGHIJKLMNOPQRSTUVWXYZ"
LowerCaseLetters == "abcdefghijklmnopqrstuvwxyz"

\* One character of String.prototype.toLowerCase.
LowerChar(c) ==
    IF \E i \in 1..Len(UpperCaseLetters) : SubSeq(UpperCaseLetters, i, i) = c
    THEN LET i == CHOOSE j \in 1..Len(UpperCaseLetters) :
                      SubSeq(UpperCaseLetters, j, j) = c
         IN  SubSeq(LowerCaseLetters, i, i)
    ELSE c

RECURSIVE ToLowerCase(_)
ToLowerCase(s) ==
    IF Len(s) = 0 THEN ""
    ELSE LowerChar(SubSeq(s, 1, 1)) \o ToLowerCase(SubSeq(s, 2, Len(s)))

\* p occurs in s at position i.
OccursAt(s, p, i) ==
    /\ i >= 1
    /\ i + Len(p) - 1 <= Len(s)
    /\ SubSeq(s, i, i + Len(p) - 1) = p

\* String.prototype.includes
Includes(s, p) == \E i \in 1..(Len(s) - Len(p) + 1) : OccursAt(s, p, i)

\* String.prototype.startsWith
StartsWith(s, p) == OccursAt(s, p, 1)

\* The regular expression  p.*q  tested anywhere in a one-line string.
IncludesThen(s, p, q) ==
    \E i \in 1..Len(s) : \E j \in 1..Len(s) :
        /\ OccursAt(s, p, i)
        /\ j >= i + Len(p)
        /\ OccursAt(s, q, j)

\* Array.prototype.includes on an array of strings.
ArrayIncludes(arr, x) == \E i \in 1..Len(arr) : arr[i] = x

\* [...new Set(out)]: the first occurrence of each element, in order.
RECURSIVE Unique(_)
Unique(s) ==
    IF Len(s) = 0 THEN <<>>
    ELSE LET front == Unique(SubSeq(s, 1, Len(s) - 1))
             last  == s[Len(s)]
         IN  IF ArrayIncludes(front, last) THEN front ELSE Append(front, last)

(***************************************************************************)
(* The label classifier, fetch-github-prs.js.                              *)
(***************************************************************************)

\* The rule table of computeRefinedLabels, in the order of its if statements:
\* the category is pushed when some lower-cased label includes some pattern.
RefinedRules == <<
    [pats |-> {"a-review", "author review"},  cat |-> "Author Review"],
    [pats |-> {"e-review", "editor review"},  cat |-> "Editor Review"],
    [pats |-> {"discuss"},                    cat |-> "Discuss"],
    [pats |-> {"on-hold", "on hold"},         cat |-> "On Hold"],
    [pats |-> {"final-call", "final call"},   cat |-> "Final Call"],
    [pats |-> {"draft"},                      cat |-> "Draft"],
    [pats |-> {"review"},                     cat |-> "Review"],
    [pats |-> {"last-call", "last call"},     cat |-> "Last Call"],
    [pats |-> {"final"},                      cat |-> "Final"],
    [pats |-> {"stagnant"},                   cat |-> "Stagnant"],
    [pats |-> {"withdrawn"},                  cat |-> "Withdrawn"],
    [pats |-> {"c-new"},                      cat |-> "New"],
    [pats |-> {"c-update"},                   cat |-> "Update"],
    [pats |-> {"c-status"},                   cat |-> "Status Change"],
    [pats |-> {"created-by-bot", "bot"},      cat |-> "Created By Bot"],
    [pats |-> {"core"},                       cat |-> "Core"],
    [pats |-> {"networking"},                 cat |-> "Networking"],
    [pats |-> {"interface"},                  cat |-> "Interface"],
    [pats |-> {"erc"},                        cat |-> "ERC"],
    [pats |-> {"meta"},                       cat |-> "Meta"],
    [pats |-> {"informational"},              cat |-> "Informational"] >>

\* labels.some(l => l.includes(p1) || l.includes(p2))
SomeLabelIncludes(labels, pats) ==
    \E i \in 1..Len(labels) : \E p \in pats : Includes(labels[i], p)

\* Mutant of computeRefinedLabels: the labels are matched without lower-casing.
computeRefinedLabelsCaseSensitive(rawLabels) ==
    LET fired   == SelectSeq(RefinedRules,
                             LAMBDA r : SomeLabelIncludes(rawLabels, r.pats))
        refined == [i \in 1..Len(fired) |-> fired[i].cat]
    IN  IF Len(refined) > 0 THEN refined ELSE <<"Unlabeled">>

computeRefinedLabels(rawLabels) ==
    LET labels  == [i \in 1..Len(rawLabels) |-> ToLowerCase(rawLabels[i])]
        fired   == SelectSeq(RefinedRules,
                             LAMBDA r : SomeLabelIncludes(labels, r.pats))
        refined == [i \in 1..Len(fired) |-> fired[i].cat]
    IN  IF Len(refined) > 0 THEN refined ELSE <<"Unlabeled">>

\* /typo|spelling|grammar|punctuation/i
TypoRegex(s) ==
    LET lc == ToLowerCase(s)
    IN  \/ Includes(lc, "typo")
        \/ Includes(lc, "spelling")
        \/ Includes(lc, "grammar")
        \/ Includes(lc, "punctuation")

\* /move to|status.*change|change.*status/i
StatusRegex(s) ==
    LET lc == ToLowerCase(s)
    IN  \/ Includes(lc, "move to")
        \/ IncludesThen(lc, "status", "change")
        \/ IncludesThen(lc, "change", "status")

\* /fix typo|fix file name|typo|grammar|punctuation/i
RipTypoRegex(s) ==
    LET lc == ToLowerCase(s)
    IN  \/ Includes(lc, "fix typo")
        \/ Includes(lc, "fix file name")
        \/ Includes(lc, "typo")
        \/ Includes(lc, "grammar")
        \/ Includes(lc, "punctuation")

\* /update rip-|rename|review required/i
RipUpdateRegex(s) ==
    LET lc == ToLowerCase(s)
    IN  \/ Includes(lc, "update rip-")
        \/ Includes(lc, "rename")
        \/ Includes(lc, "review required")

\* /^create rip|add rip/i: the anchor binds the first alternative only.
RipNewRegex(s) ==
    LET lc == ToLowerCase(s)
    IN  \/ StartsWith(lc, "create rip")
        \/ Includes(lc, "add rip")

PushIf(out, cond, label) == IF cond THEN Append(out, label) ELSE out

\* Mutant of EipErcTitleRules: the generic update label is pushed without
\* testing the absence of the two specific labels.
EipErcTitleRulesNoSuppress(out, ttl, labels, tag) ==
    LET prefix == "Update " \o tag \o "-"
        out1 == PushIf(out,  StartsWith(ttl, prefix) /\ TypoRegex(ttl), "Typo Fix")
        out2 == PushIf(out1, StartsWith(ttl, prefix) /\ StatusRegex(ToLowerCase(ttl)),
                       "Status Change")
        out3 == PushIf(out2, StartsWith(ttl, prefix), tag \o " Update")
        out4 == PushIf(out3, ArrayIncludes(labels, "created-by-bot"), "Created By Bot")
        out5 == PushIf(out4, StartsWith(ttl, "Add " \o tag) /\ ArrayIncludes(labels, "c-new"),
                       "New " \o tag)
    IN  out5

\* Mutant of EipErcTitleRules: the prefix of the generic update rule is tested
\* on the lower-cased title.
EipErcTitleRulesAnyCase(out, ttl, labels, tag) ==
    LET prefix == "Update " \o tag \o "-"
        out1 == PushIf(out,  StartsWith(ttl, prefix) /\ TypoRegex(ttl), "Typo Fix")
        out2 == PushIf(out1, StartsWith(ttl, prefix) /\ StatusRegex(ToLowerCase(ttl)),
                       "Status Change")
        out3 == PushIf(out2, /\ StartsWith(ToLowerCase(ttl), ToLowerCase(prefix))
                             /\ ~ArrayIncludes(out2, "Status Change")
                             /\ ~ArrayIncludes(out2, "Typo Fix"),
                       tag \o " Update")
        out4 == PushIf(out3, ArrayIncludes(labels, "created-by-bot"), "Created By Bot")
        out5 == PushIf(out4, StartsWith(ttl, "Add " \o tag) /\ ArrayIncludes(labels, "c-new"),
                       "New " \o tag)
    IN  out5

\* Mutant of EipErcTitleRules: the new-proposal rule looks for c-new in the
\* lower-cased labels, as computeRefinedLabels does.
EipErcTitleRulesNewAnyCase(out, ttl, labels, tag) ==
    LET prefix == "Update " \o tag \o "-"
        out1 == PushIf(out,  StartsWith(ttl, prefix) /\ TypoRegex(ttl), "Typo Fix")
        out2 == PushIf(out1, StartsWith(ttl, prefix) /\ StatusRegex(ToLowerCase(ttl)),
                       "Status Change")
        out3 == PushIf(out2, /\ StartsWith(ttl, prefix)
                             /\ ~ArrayIncludes(out2, "Status Change")
                             /\ ~ArrayIncludes(out2, "Typo Fix"),
                       tag \o " Update")
        out4 == PushIf(out3, ArrayIncludes(labels, "created-by-bot"), "Created By Bot")
        out5 == PushIf(out4, /\ StartsWith(ttl, "Add " \o tag)
                             /\ \E i \in 1..Len(labels) : ToLowerCase(labels[i]) = "c-new",
                       "New " \o tag)
    IN  out5

\* The branch of computeCustomLabels for kind "EIP" (tag "EIP") and "ERC" (tag
\* "ERC"): the two branches differ in the tag only.
EipErcTitleRules(out, ttl, labels, tag) ==
    LET prefix == "Update " \o tag \o "-"
        out1 == PushIf(out,  StartsWith(ttl, prefix) /\ TypoRegex(ttl), "Typo Fix")
        out2 == PushIf(out1, StartsWith(ttl, prefix) /\ StatusRegex(ToLowerCase(ttl)),
                       "Status Change")
        out3 == PushIf(out2, /\ StartsWith(ttl, prefix)
                             /\ ~ArrayIncludes(out2, "Status Change")
                             /\ ~ArrayIncludes(out2, "Typo Fix"),
                       tag \o " Update")
        out4 == PushIf(out3, ArrayIncludes(labels, "created-by-bot"), "Created By Bot")
        out5 == PushIf(out4, StartsWith(ttl, "Add " \o tag) /\ ArrayIncludes(labels, "c-new"),
                       "New " \o tag)
    IN  out5

\* The branch of computeCustomLabels for kind "RIP".
RipTitleRules(out, ttl) ==
    LET titleLC == ToLowerCase(ttl)
        out1 == PushIf(out,  RipTypoRegex(titleLC), "Typo Fix")
        out2 == PushIf(out1, RipUpdateRegex(titleLC), "Update")
        out3 == PushIf(out2, RipNewRegex(titleLC), "New RIP")
    IN  out3

\* The refined labels computeCustomLabels starts from.
RefinedPart(labels) ==
    LET refinedFromLabels == computeRefinedLabels(labels)
    IN  IF Len(refinedFromLabels) > 0 /\ ~ArrayIncludes(refinedFromLabels, "Unlabeled")
        THEN refinedFromLabels ELSE <<>>

\* out before the removal of duplicates.
CustomOut(ttl, labels, k) ==
    LET out0 == RefinedPart(labels)
    IN  IF k = "EIP" THEN EipErcTitleRules(out0, ttl, labels, "EIP")
        ELSE IF k = "ERC" THEN EipErcTitleRules(out0, ttl, labels, "ERC")
        ELSE IF k = "RIP" THEN RipTitleRules(out0, ttl)
        ELSE out0

\* Mutant of computeCustomLabels: the duplicates are kept.
computeCustomLabelsNoDedup(ttl, labels, k) ==
    LET out == CustomOut(ttl, labels, k)
    IN  IF Len(out) = 0 THEN <<"Misc">> ELSE out

computeCustomLabels(ttl, labels, k) ==
    LET uniqueOut == Unique(CustomOut(ttl, labels, k))
    IN  IF Len(uniqueOut) = 0 THEN <<"Misc">> ELSE uniqueOut

(***************************************************************************)
(* Inputs of the classifier.                                               *)
(***************************************************************************)
Kinds == {"EIP", "ERC", "RIP"}

\* GitHub label names as the three repositories carry them, in the spellings
\* that reach every pattern of the rule table, and two that reach none.
RawLabelNames == {
    "a-review", "Author Review", "E-Review", "editor review", "discussions-to",
    "on-hold", "On Hold", "final-call", "Final Call", "s-draft", "s-review",
    "last-call", "Last Call", "s-final", "s-stagnant", "s-withdrawn",
    "c-new", "c-update", "c-status", "created-by-bot", "dependabot",
    "t-core", "t-networking", "t-interface", "t-erc", "t-meta",
    "t-informational", "w-ci", "enhancement" }

\* The labels of the PRs whose titles are classified.
PRLabelNames == {"c-new", "C-New", "c-update", "c-status", "created-by-bot",
                 "Created-By-Bot", "e-review", "w-ci"}

\* PR titles.
Titles == {
    "",
    "Website: bump dependencies",
    "Fix typo",
    "Update EIP-1: Fix typo",
    "Update EIP-1: Move to Final",
    "Update EIP-1: typo, move to Last Call",
    "Update EIP-1: Status change",
    "Update EIP-1: change the status",
    "Update EIP-1: clarify gas",
    "update eip-1: clarify gas",
    "CI: Update EIP-1 bot",
    "Add EIP: gas metering",
    "Docs: Add EIP index",
    "Update ERC-20: Fix Grammar",
    "Update ERC-20: Move to Review",
    "Update ERC-20: spelling, status of change",
    "Update ERC-20: clarify",
    "Add ERC: token",
    "Update RIP-7212",
    "Rename file",
    "Create RIP-1",
    "Re-create RIP index",
    "Add RIP: precompile" }

(***************************************************************************)
(* State of the models of the other jobs while the classifier runs.        *)
(***************************************************************************)
classVars == <<title, githubLabels, kind, refinedLabels, customLabels>>
aggVars   == <<prs, now, graph1Data, graph1Prev, chartData>>
dbVars    == <<prStore, rawStore, prCharts, customCharts, rawCharts>>
apiVars   == <<response, aggCalls>>
jobVars   == <<pipeline, child>>
moreVars  == <<snapStore, apiFetch, statsStore, contribStore>>
extVars   == <<response, aggCalls, pipeline, child, github,
               snapStore, apiFetch, statsStore, contribStore>>

\* The runs of the pipeline a behaviour follows, and its four jobs.
MaxRuns == 2
Runs == 1..MaxRuns
Jobs == 1..4

\* No response was sent yet.
NoResponse == [status |-> 0]

\* fetchGitHubAPI was not called.
NotCalled == [status |-> "not called"]

\* No snapshot and no contributor data is stored.
MoreIdle ==
    /\ snapStore = [k \in {"EIP", "ERC", "RIP"} |-> <<>>]
    /\ apiFetch = NotCalled
    /\ statsStore = <<>>
    /\ contribStore = <<>>

\* No request was made, no pipeline run was started, GitHub serves nothing.
ExtIdle ==
    /\ MoreIdle
    /\ response = NoResponse
    /\ aggCalls = <<>>
    /\ pipeline = [r \in Runs |-> "scheduled"]
    /\ child = [r \in Runs |-> [j \in Jobs |-> "none"]]
    /\ github = <<>>

\* No PR is being classified.
ClassIdle ==
    /\ title = ""
    /\ kind = "EIP"
    /\ githubLabels = <<>>
    /\ refinedLabels = <<>>
    /\ customLabels = <<>>

ChartNames == Kinds \cup {"ALL"}

\* The database before the first import: every collection is empty.
DbEmpty ==
    /\ prStore = [k \in Kinds |-> <<>>]
    /\ rawStore = [k \in Kinds |-> <<>>]
    /\ prCharts = [c \in ChartNames |-> <<>>]
    /\ customCharts = [c \in ChartNames |-> <<>>]
    /\ rawCharts = [c \in ChartNames |-> <<>>]

\* No aggregation is running.
AggIdle ==
    /\ prs = <<>>
    /\ now = 0
    /\ graph1Data = <<>>
    /\ graph1Prev = <<>>
    /\ chartData = <<>>

(***************************************************************************)
(* SpecRefined: processRawLabels computes the refinedLabels of a fetched   *)
(* PR from its GitHub labels.                                              *)
(***************************************************************************)
InitRefined ==
    /\ pc = "fetched"
    /\ title = ""
    /\ kind = "EIP"
    /\ githubLabels \in SeqsUpTo(RawLabelNames, MaxLabels)
    /\ refinedLabels = <<>>
    /\ customLabels = <<>>
    /\ AggIdle
    /\ DbEmpty
    /\ ExtIdle

\* processRawLabels, the map of prs to raw-label documents.
ProcessRawLabels ==
    /\ pc = "fetched"
    /\ refinedLabels' = computeRefinedLabels(githubLabels)
    /\ pc' = "rawLabelled"
    /\ UNCHANGED <<title, githubLabels, kind, customLabels>>
    /\ UNCHANGED aggVars
    /\ UNCHANGED dbVars
    /\ UNCHANGED extVars

NextRefined == ProcessRawLabels

SpecRefined == InitRefined /\ [][NextRefined]_vars

(***************************************************************************)
(* SpecCustom: main computes the customLabels of a fetched PR from its     *)
(* title, its GitHub labels and the specType of its repository.            *)
(***************************************************************************)
InitCustom ==
    /\ pc = "fetched"
    /\ title \in Titles
    /\ kind \in Kinds
    /\ githubLabels \in SeqsUpTo(PRLabelNames, MaxLabels)
    /\ refinedLabels = <<>>
    /\ customLabels = <<>>
    /\ AggIdle
    /\ DbEmpty
    /\ ExtIdle

\* main: pr => ({ ...pr, customLabels: computeCustomLabels(pr, kind) })
ClassifyPR ==
    /\ pc = "fetched"
    /\ customLabels' = computeCustomLabels(title, githubLabels, kind)
    /\ pc' = "classified"
    /\ UNCHANGED <<title, githubLabels, kind, refinedLabels>>
    /\ UNCHANGED aggVars
    /\ UNCHANGED dbVars
    /\ UNCHANGED extVars

NextCustom == ClassifyPR

SpecCustom == InitCustom /\ [][NextCustom]_vars

(***************************************************************************)
(* Claims about the classifier.                                            *)
(***************************************************************************)

\* Every pattern of the rule table.
AllPatterns == UNION {RefinedRules[i].pats : i \in 1..Len(RefinedRules)}

\* Some pattern of the rule table is a substring of some lower-cased label.
SomePatternMatches(rawLabels) ==
    \E i \in 1..Len(rawLabels) : \E p \in AllPatterns :
        Includes(ToLowerCase(rawLabels[i]), p)

\* C1: for every sequence of raw labels computeRefinedLabels returns a
\* non-empty result, and the result is exactly <<"Unlabeled">> if and only if
\* no pattern of the rule table is a substring of any lower-cased label.
C1_RefinedNonEmptyUnlabeledIff ==
    pc = "rawLabelled" =>
        /\ Len(refinedLabels) > 0
        /\ ((refinedLabels = <<"Unlabeled">>) <=> ~SomePatternMatches(githubLabels))

\* C1 witness: of two labels, one in upper case matched two rules and the
\* other matched none.
C1_Witness ==
    /\ pc = "rawLabelled"
    /\ githubLabels = <<"E-Review", "w-ci">>
    /\ refinedLabels = <<"Editor Review", "Review">>

\* The title rules of specType EIP and ERC as the specification states them.
UpdatePrefix(k) == "Update " \o k \o "-"
TypoRuleFires(ttl, k)   == StartsWith(ttl, UpdatePrefix(k)) /\ TypoRegex(ttl)
StatusRuleFires(ttl, k) == StartsWith(ttl, UpdatePrefix(k)) /\ StatusRegex(ttl)
UpdateRuleFires(ttl, k) ==
    /\ StartsWith(ttl, UpdatePrefix(k))
    /\ ~TypoRuleFires(ttl, k)
    /\ ~StatusRuleFires(ttl, k)
BotRuleFires(labels)    == "created-by-bot" \in Range(labels)
NewRuleFires(ttl, labels, k) ==
    StartsWith(ttl, "Add " \o k) /\ "c-new" \in Range(labels)

\* Some title or label rule of the specType fires.
AnyRuleFires(ttl, labels, k) ==
    IF k \in {"EIP", "ERC"}
    THEN \/ TypoRuleFires(ttl, k)
         \/ StatusRuleFires(ttl, k)
         \/ UpdateRuleFires(ttl, k)
         \/ BotRuleFires(labels)
         \/ NewRuleFires(ttl, labels, k)
    ELSE \/ RipTypoRegex(ttl)
         \/ RipUpdateRegex(ttl)
         \/ RipNewRegex(ttl)

NoDuplicates(s) == \A i, j \in 1..Len(s) : s[i] = s[j] => i = j

\* C2: for every (title, raw labels, specType) computeCustomLabels returns a
\* non-empty result without duplicates, and the result is exactly <<"Misc">> if
\* and only if no title or label rule of the specType fires and the refined
\* labels of the raw labels are only "Unlabeled".
C2_CustomNonEmptyMiscIff ==
    pc = "classified" =>
        /\ Len(customLabels) > 0
        /\ NoDuplicates(customLabels)
        /\ ((customLabels = <<"Misc">>) <=>
                /\ ~AnyRuleFires(title, githubLabels, kind)
                /\ Range(computeRefinedLabels(githubLabels)) = {"Unlabeled"})

\* C2 witness: a PR with a title and a label that match nothing was given "Misc".
C2_Witness ==
    /\ pc = "classified"
    /\ Len(title) > 0
    /\ Len(githubLabels) > 0
    /\ customLabels = <<"Misc">>

\* The three labels of the update branch of a specType.
UpdateBranchLabels(k) == {"Typo Fix", "Status Change", k \o " Update"}

HasStatusLabel(labels) ==
    \E i \in 1..Len(labels) : Includes(ToLowerCase(labels[i]), "c-status")

NullDate == -1
EpochYear == 2023
EpochMonth == 12
MonthsPerYear == 12
TicksPerMonth == 2

\* The number of months the timestamps of the model span.
NumMonths == 2

TimeStamps == 0..(NumMonths * TicksPerMonth - 1)

\* The months since year 0 of the month a date lies in (local time).
AbsMonth(date) ==
    EpochYear * MonthsPerYear + (EpochMonth - 1) + (date \div TicksPerMonth)

Digits == "0123456789"
DigitStr(d) == SubSeq(Digits, d + 1, d + 1)
DigitOf(c) == CHOOSE d \in 0..9 : DigitStr(d) = c

\* String(n) for n >= 0.
RECURSIVE NumStr(_)
NumStr(n) == IF n < 10 THEN DigitStr(n) ELSE NumStr(n \div 10) \o DigitStr(n % 10)

\* n in at least w digits, padded with zeros.
RECURSIVE PadStart(_, _)
PadStart(str, w) == IF Len(str) >= w THEN str ELSE PadStart("0" \o str, w)

\* Number(s) for a string of digits.
RECURSIVE Number(_)
Number(str) ==
    IF Len(str) = 0 THEN 0
    ELSE 10 * Number(SubSeq(str, 1, Len(str) - 1)) + DigitOf(SubSeq(str, Len(str), Len(str)))

\* str.split('-')
RECURSIVE SplitDash(_)
SplitDash(str) ==
    IF \E i \in 1..Len(str) : SubSeq(str, i, i) = "-"
    THEN LET i == CHOOSE j \in 1..Len(str) :
                      /\ SubSeq(str, j, j) = "-"
                      /\ \A k \in 1..(j - 1) : SubSeq(str, k, k) # "-"
         IN  <<SubSeq(str, 1, i - 1)>> \o SplitDash(SubSeq(str, i + 1, Len(str)))
    ELSE <<str>>

\* getMonthYear: dayjs(date).format('YYYY-MM'); dayjs(null) is an invalid
\* date, whose format is the string "Invalid Date".
getMonthYear(date) ==
    IF date = NullDate THEN "Invalid Date"
    ELSE LET year  == AbsMonth(date) \div MonthsPerYear
             month == (AbsMonth(date) % MonthsPerYear) + 1
         IN  PadStart(NumStr(year), 4) \o "-" \o PadStart(NumStr(month), 2)

\* new Date(year, monthIndex, 1): the first instant of the month with the
\* 0-based index monthIndex of the year; an index of 12 is January of the next.
FirstOfMonth(year, monthIndex) ==
    (year * MonthsPerYear + monthIndex
        - (EpochYear * MonthsPerYear + (EpochMonth - 1))) * TicksPerMonth

\* new Date(year, month - 1, 1)
MonthStartDate(year, month) == FirstOfMonth(year, month - 1)

\* new Date(year, month, 0, 23, 59, 59, 999): the last instant of day 0 of the
\* following month, which is the last instant of the month.
MonthEndDate(year, month) == FirstOfMonth(year, month) - 1

\* The order of the characters of a month key and of "Invalid Date", in
\* UTF-16 and in collation.
CharOrder == " -0123456789DIadeilntv"
CharRank(c) == CHOOSE i \in 1..Len(CharOrder) : SubSeq(CharOrder, i, i) = c

\* a < b in the order of the code units (Array.prototype.sort without a
\* comparator) and a.localeCompare(b) < 0, which agree on month keys.
RECURSIVE StrLess(_, _)
StrLess(a, b) ==
    IF Len(b) = 0 THEN FALSE
    ELSE IF Len(a) = 0 THEN TRUE
    ELSE LET ca == CharRank(SubSeq(a, 1, 1))
             cb == CharRank(SubSeq(b, 1, 1))
         IN  IF ca # cb THEN ca < cb
             ELSE StrLess(SubSeq(a, 2, Len(a)), SubSeq(b, 2, Len(b)))

\* a.localeCompare(b)
LocaleCompare(a, b) == IF StrLess(a, b) THEN -1 ELSE IF StrLess(b, a) THEN 1 ELSE 0

\* typeOrder.indexOf(type), 0-based, -1 when absent.
TypeOrder == <<"Created", "Merged", "Closed", "Open">>
IndexOf(arr, x) ==
    IF ArrayIncludes(arr, x)
    THEN (CHOOSE i \in 1..Len(arr) : arr[i] = x /\ \A j \in 1..(i - 1) : arr[j] # x) - 1
    ELSE -1

\* Mutant of CompareStateDocs: monthYear ascending.
CompareStateDocsMonthAscending(a, b) ==
    IF a.monthYear # b.monthYear
    THEN LocaleCompare(a.monthYear, b.monthYear)
    ELSE IndexOf(TypeOrder, a.type) - IndexOf(TypeOrder, b.type)

\* The comparator of the PR state documents: monthYear descending, then the
\* type in the order of typeOrder.
CompareStateDocs(a, b) ==
    IF a.monthYear # b.monthYear
    THEN LocaleCompare(b.monthYear, a.monthYear)
    ELSE IndexOf(TypeOrder, a.type) - IndexOf(TypeOrder, b.type)

\* Array.prototype.sort(CompareStateDocs): a stable sort.
RECURSIVE SortStateDocs(_)
SortStateDocs(docs) ==
    IF Len(docs) <= 1 THEN docs
    ELSE LET front == SortStateDocs(SubSeq(docs, 1, Len(docs) - 1))
             x     == docs[Len(docs)]
             \* x goes behind every element that does not sort after it
             k     == Cardinality({i \in 1..Len(front) : CompareStateDocs(front[i], x) <= 0})
         IN  SubSeq(front, 1, k) \o <<x>> \o SubSeq(front, k + 1, Len(front))

\* Array.prototype.sort() of strings: ascending code units.
RECURSIVE SortStrings(_)
SortStrings(strs) ==
    IF Len(strs) <= 1 THEN strs
    ELSE LET front == SortStrings(SubSeq(strs, 1, Len(strs) - 1))
             x     == strs[Len(strs)]
             k     == Cardinality({i \in 1..Len(front) : ~StrLess(x, front[i])})
         IN  SubSeq(front, 1, k) \o <<x>> \o SubSeq(front, k + 1, Len(front))

\* Flattens a sequence of sequences.
RECURSIVE Flatten(_)
Flatten(ss) == IF Len(ss) = 0 THEN <<>> ELSE Head(ss) \o Flatten(Tail(ss))

\* specType.toLowerCase() + 's'
Category(specType) == ToLowerCase(specType) \o "s"

(***************************************************************************)
(* The stored PR documents the aggregators read.                           *)
(***************************************************************************)
MaxPRs == 2
MaxRequests == 2

IsSet(date) == date # NullDate

\* A stored PR: createdAt is a date; closedAt and mergedAt are dates or null,
\* each copied from the API response on its own.
PRRecords ==
    [createdAt : TimeStamps,
     closedAt  : TimeStamps \cup {NullDate},
     mergedAt  : TimeStamps \cup {NullDate}]

(***************************************************************************)
(* The event-count aggregator, getPRStateCountsByMonthYear of              *)
(* api-server.js.  monthlyData is the sequence of its entries in the order *)
(* of insertion, which is the order of Object.entries.                     *)
(***************************************************************************)
HasMonth(monthlyData, monthYear) ==
    \E i \in 1..Len(monthlyData) : monthlyData[i].monthYear = monthYear

\* if (!monthlyData[m]) monthlyData[m] = { created: 0, closed: 0, merged: 0 }
InitMonth(monthlyData, monthYear) ==
    IF HasMonth(monthlyData, monthYear) THEN monthlyData
    ELSE Append(monthlyData,
                [monthYear |-> monthYear, created |-> 0, closed |-> 0, merged |-> 0, open |-> 0])

\* monthlyData[m].created++, .closed++ or .merged++ after the initialisation.
CountEvent(monthlyData, monthYear, field) ==
    LET md == InitMonth(monthlyData, monthYear)
    IN  [i \in 1..Len(md) |->
            IF md[i].monthYear = monthYear
            THEN [md[i] EXCEPT ![field] = @ + 1]
            ELSE md[i]]

\* Mutant of CountPR: a closed PR is counted as closed also when it was merged.
CountPRClosedAlsoWhenMerged(monthlyData, pr) ==
    LET md1 == CountEvent(monthlyData, getMonthYear(pr.createdAt), "created")
        md2 == IF IsSet(pr.closedAt)
               THEN CountEvent(md1, getMonthYear(pr.closedAt), "closed") ELSE md1
        md3 == IF IsSet(pr.mergedAt)
               THEN CountEvent(md2, getMonthYear(pr.mergedAt), "merged") ELSE md2
    IN  md3

\* The body of prs.forEach.
CountPR(monthlyData, pr) ==
    LET md1 == CountEvent(monthlyData, getMonthYear(pr.createdAt), "created")
        md2 == IF IsSet(pr.closedAt) /\ ~IsSet(pr.mergedAt)
               THEN CountEvent(md1, getMonthYear(pr.closedAt), "closed") ELSE md1
        md3 == IF IsSet(pr.mergedAt)
               THEN CountEvent(md2, getMonthYear(pr.mergedAt), "merged") ELSE md2
    IN  md3

RECURSIVE MonthlyData(_)
MonthlyData(records) ==
    IF Len(records) = 0 THEN <<>>
    ELSE CountPR(MonthlyData(SubSeq(records, 1, Len(records) - 1)), records[Len(records)])

Max(a, b) == IF a >= b THEN a ELSE b

\* Mutant of EventCountDocs: the Open count is openCount without Math.max.
EventCountDocsOpenUnclamped(entry, category, clock) ==
    LET openCount == entry.created - entry.merged - entry.closed
        doc(suffix, type, count) ==
            [_id       |-> entry.monthYear \o suffix \o NumStr(clock),
             category  |-> category,
             monthYear |-> entry.monthYear,
             type      |-> type,
             count     |-> count]
    IN  << doc("-created-", "Created", entry.created),
           doc("-merged-",  "Merged",  0 - entry.merged),
           doc("-closed-",  "Closed",  0 - entry.closed),
           doc("-open-",    "Open",    openCount) >>

\* The four documents of one entry of monthlyData; clock is Date.now().
EventCountDocs(entry, category, clock) ==
    LET openCount == entry.created - entry.merged - entry.closed
        doc(suffix, type, count) ==
            [_id       |-> entry.monthYear \o suffix \o NumStr(clock),
             category  |-> category,
             monthYear |-> entry.monthYear,
             type      |-> type,
             count     |-> count]
    IN  << doc("-created-", "Created", entry.created),
           doc("-merged-",  "Merged",  0 - entry.merged),
           doc("-closed-",  "Closed",  0 - entry.closed),
           doc("-open-",    "Open",    Max(0, openCount)) >>

RECURSIVE Repeat(_, _)
Repeat(seq, n) == IF n = 0 THEN <<>> ELSE seq \o Repeat(seq, n - 1)

\* Mutant of EventCountStates: monthlyData is kept from one call to the next,
\* so the call number clock + 1 counts the records clock + 1 times.
EventCountStatesKeepingMonthlyData(records, specType, clock) ==
    LET md == MonthlyData(Repeat(records, clock + 1))
    IN  SortStateDocs(Flatten([i \in 1..Len(md) |->
            EventCountDocs(md[i], Category(specType), clock)]))

\* getPRStateCountsByMonthYear(prs, specType) of api-server.js.
EventCountStates(records, specType, clock) ==
    LET md == MonthlyData(records)
    IN  SortStateDocs(Flatten([i \in 1..Len(md) |->
            EventCountDocs(md[i], Category(specType), clock)]))

(***************************************************************************)
(* The hybrid aggregator, getPRStateCountsByMonthYear of the chart job     *)
(* (populate-chart-collections.js, in index.js).  The _id of its documents *)
(* (the clock and a random number) is left out.                            *)
(***************************************************************************)

\* The months a PR adds to allMonths, in the order of the add calls.
MonthsOfPR(pr) ==
    <<getMonthYear(pr.createdAt)>>
    \o (IF IsSet(pr.closedAt) THEN <<getMonthYear(pr.closedAt)>> ELSE <<>>)
    \o (IF IsSet(pr.mergedAt) THEN <<getMonthYear(pr.mergedAt)>> ELSE <<>>)

\* Mutant of AllMonths: only the months of creation are collected.
AllMonthsCreatedOnly(records) ==
    Unique([i \in 1..Len(records) |-> getMonthYear(records[i].createdAt)])

\* Array.from(allMonths): a Set keeps the first insertion of each month.
AllMonths(records) == Unique(Flatten([i \in 1..Len(records) |-> MonthsOfPR(records[i])]))

\* Mutant of OpenAtEnd: a PR merged or closed exactly at monthEndDate is open.
OpenAtEndNotStrict(pr, monthEndDate) ==
    /\ pr.createdAt <= monthEndDate
    /\ IF ~IsSet(pr.mergedAt) /\ ~IsSet(pr.closedAt) THEN TRUE
       ELSE IF IsSet(pr.mergedAt) /\ pr.mergedAt >= monthEndDate THEN TRUE
       ELSE IF IsSet(pr.closedAt) /\ pr.closedAt >= monthEndDate THEN TRUE
       ELSE FALSE

\* Mutant of OpenAtEnd: the last branch counts the PRs closed by monthEndDate.
OpenAtEndClosedBefore(pr, monthEndDate) ==
    /\ pr.createdAt <= monthEndDate
    /\ IF ~IsSet(pr.mergedAt) /\ ~IsSet(pr.closedAt) THEN TRUE
       ELSE IF IsSet(pr.mergedAt) /\ pr.mergedAt > monthEndDate THEN TRUE
       ELSE IF IsSet(pr.closedAt) /\ pr.closedAt <= monthEndDate THEN TRUE
       ELSE FALSE

\* Mutant of OpenAtEnd: only closedAt ends the open state.
OpenAtEndUntilClosed(pr, monthEndDate) ==
    /\ pr.createdAt <= monthEndDate
    /\ (~IsSet(pr.closedAt) \/ pr.closedAt > monthEndDate)

\* PRs open at monthEndDate: the if / else-if chain increments once.
OpenAtEnd(pr, monthEndDate) ==
    /\ pr.createdAt <= monthEndDate
    /\ IF ~IsSet(pr.mergedAt) /\ ~IsSet(pr.closedAt) THEN TRUE
       ELSE IF IsSet(pr.mergedAt) /\ pr.mergedAt > monthEndDate THEN TRUE
       ELSE IF IsSet(pr.closedAt) /\ pr.closedAt > monthEndDate THEN TRUE
       ELSE FALSE

\* Number(str) is a number and not NaN.
IsNumeric(str) ==
    /\ Len(str) > 0
    /\ \A i \in 1..Len(str) : \E d \in 0..9 : DigitStr(d) = SubSeq(str, i, i)

\* The body of sortedMonths.forEach: the four documents of a month.  For
\* the key "Invalid Date" year is NaN and month is undefined, the two Dates
\* are invalid, and every comparison with them is false.
HybridMonthDocs(records, category, monthYear) ==
    LET parts == SplitDash(monthYear)
        validDates == Len(parts) >= 2 /\ IsNumeric(parts[1]) /\ IsNumeric(parts[2])
        year  == Number(parts[1])
        month == Number(parts[2])
        monthEndDate   == MonthEndDate(year, month)
        monthStartDate == MonthStartDate(year, month)
        InWindow(date) == validDates /\ date >= monthStartDate /\ date <= monthEndDate
        Created(pr) == InWindow(pr.createdAt)
        Merged(pr)  == IsSet(pr.mergedAt) /\ InWindow(pr.mergedAt)
        Closed(pr)  == IsSet(pr.closedAt) /\ ~IsSet(pr.mergedAt) /\ InWindow(pr.closedAt)
        Open(pr)    == validDates /\ OpenAtEnd(pr, monthEndDate)
        \* the counter after prs.forEach
        Count(P(_)) == Cardinality({i \in 1..Len(records) : P(records[i])})
        doc(type, count) ==
            [category |-> category, monthYear |-> monthYear, type |-> type, count |-> count]
    IN  << doc("Created", Count(Created)),
           doc("Merged",  Count(Merged)),
           doc("Closed",  Count(Closed)),
           doc("Open",    Count(Open)) >>

\* Mutant of HybridStates: a list without records gives the four documents
\* of the first month, with the count 0.
HybridStatesNeverEmpty(records, specType) ==
    LET sortedMonths == IF Len(records) = 0 THEN <<getMonthYear(0)>>
                        ELSE SortStrings(AllMonths(records))
    IN  SortStateDocs(Flatten([i \in 1..Len(sortedMonths) |->
            HybridMonthDocs(records, Category(specType), sortedMonths[i])]))

\* getPRStateCountsByMonthYear(prs, specType) of the chart job.
HybridStates(records, specType) ==
    LET sortedMonths == SortStrings(AllMonths(records))
    IN  SortStateDocs(Flatten([i \in 1..Len(sortedMonths) |->
            HybridMonthDocs(records, Category(specType), sortedMonths[i])]))

(***************************************************************************)
(* SpecAggregate: the PR collection of one specType is read by the API     *)
(* server's /api/graph1 handler (twice at most, the clock advancing) and   *)
(* by the chart job's populateChartCollection.                             *)
(***************************************************************************)
InitAggregate ==
    /\ pc = "stored"
    /\ title = ""
    /\ githubLabels = <<>>
    /\ refinedLabels = <<>>
    /\ customLabels = <<>>
    /\ kind \in Kinds
    /\ DbEmpty
    /\ ExtIdle
    /\ prs \in SeqsUpTo(PRRecords, MaxPRs)
    /\ now = 0
    /\ graph1Data = <<>>
    /\ graph1Prev = <<>>
    /\ chartData = <<>>

\* GET /api/graph1/:specType without a date range.
Graph1Request ==
    /\ pc \in {"stored", "answered"}
    /\ now < MaxRequests
    /\ graph1Prev' = graph1Data
    /\ graph1Data' = EventCountStates(prs, kind, now)
    /\ now' = now + 1
    /\ pc' = "answered"
    /\ UNCHANGED <<prs, chartData>>
    /\ UNCHANGED classVars
    /\ UNCHANGED dbVars
    /\ UNCHANGED extVars

\* populateChartCollection: returns early when the PR collection is empty,
\* otherwise replaces the chart collection by the hybrid aggregation.
PopulateChart ==
    /\ pc = "stored"
    /\ chartData' = IF Len(prs) = 0 THEN chartData ELSE HybridStates(prs, kind)
    /\ pc' = "charted"
    /\ UNCHANGED <<prs, now, graph1Data, graph1Prev>>
    /\ UNCHANGED classVars
    /\ UNCHANGED dbVars
    /\ UNCHANGED extVars

NextAggregate == Graph1Request \/ PopulateChart

SpecAggregate == InitAggregate /\ [][NextAggregate]_vars

(***************************************************************************)
(* Properties of the two aggregators (SpecAggregate).  The expected counts *)
(* are computed from the records and the month index of a date, without    *)
(* the monthYear string and its parsing.                                   *)
(***************************************************************************)
MonthIndexes == 0..(NumMonths - 1)
MonthIndex(date) == date \div TicksPerMonth
MonthName(m) == getMonthYear(m * TicksPerMonth)
LastTick(m) == (m + 1) * TicksPerMonth - 1
InMonth(date, m) == IsSet(date) /\ MonthIndex(date) = m

PRIndexes == 1..Len(prs)
NumPRs(P(_)) == Cardinality({i \in PRIndexes : P(prs[i])})
Abs(n) == IF n < 0 THEN 0 - n ELSE n

DocsOf(docs, m, type) ==
    {i \in 1..Len(docs) : docs[i].monthYear = MonthName(m) /\ docs[i].type = type}
HasDoc(docs, m, type) == DocsOf(docs, m, type) # {}
CountOf(docs, m, type) == docs[CHOOSE i \in DocsOf(docs, m, type) : TRUE].count
OutputMonths(docs) == {m \in MonthIndexes : \E t \in Range(TypeOrder) : HasDoc(docs, m, t)}
KnownMonthNames == {MonthName(m) : m \in MonthIndexes}

\* The months in which some record was created, closed or merged.
EventMonths ==
    {m \in MonthIndexes : \E i \in PRIndexes :
        \/ InMonth(prs[i].createdAt, m)
        \/ InMonth(prs[i].closedAt, m)
        \/ InMonth(prs[i].mergedAt, m)}

MergePrecedence(docs) ==
    \A m \in MonthIndexes :
        LET MergedIn(pr) == InMonth(pr.mergedAt, m)
            ClosedUnmergedIn(pr) == InMonth(pr.closedAt, m) /\ ~IsSet(pr.mergedAt)
        IN  /\ NumPRs(MergedIn) > 0 => HasDoc(docs, m, "Merged")
            /\ HasDoc(docs, m, "Merged") =>
                  /\ Cardinality(DocsOf(docs, m, "Merged")) = 1
                  /\ Abs(CountOf(docs, m, "Merged")) = NumPRs(MergedIn)
            /\ HasDoc(docs, m, "Closed") =>
                  /\ Cardinality(DocsOf(docs, m, "Closed")) = 1
                  /\ Abs(CountOf(docs, m, "Closed")) = NumPRs(ClosedUnmergedIn)

\* C3: in the output of the event-count aggregator and in the output of the
\* hybrid aggregator, the Merged count of a month is the number of records
\* whose mergedAt lies in that month (each such record adds one, and its
\* month is in the output), and the Closed count of a month is the number
\* of records whose closedAt lies in that month and whose mergedAt is not
\* set: a record with mergedAt adds nothing to Closed in any month, also
\* when its closedAt lies in the month of its mergedAt.
C3_MergePrecedence ==
    /\ pc = "answered" => MergePrecedence(graph1Data)
    /\ (pc = "charted" /\ Len(prs) > 0) => MergePrecedence(chartData)

\* A record closed and merged in the first month, and another one closed
\* there without a merge: the chart shows Merged 1 and Closed 1.
C3_Witness ==
    /\ pc = "charted"
    /\ Len(prs) = 2
    /\ InMonth(prs[1].mergedAt, 0) /\ InMonth(prs[1].closedAt, 0)
    /\ InMonth(prs[2].closedAt, 0) /\ ~IsSet(prs[2].mergedAt)
    /\ CountOf(chartData, 0, "Merged") = 1
    /\ CountOf(chartData, 0, "Closed") = 1

\* C4: the output of the hybrid aggregator has documents for exactly the
\* months in which some record was created, closed or merged, one document
\* per type and month, with Created = records whose createdAt is in the
\* month, Merged = records whose mergedAt is in the month, Closed = records
\* whose closedAt is in the month and that have no mergedAt, and Open =
\* records created by the end of the month that have neither closedAt nor
\* mergedAt or have a mergedAt or closedAt after the end of the month.
C4_HybridCounts ==
    (pc = "charted" /\ Len(prs) > 0) =>
        /\ \A i \in 1..Len(chartData) : chartData[i].monthYear \in KnownMonthNames
        /\ OutputMonths(chartData) = EventMonths
        /\ Len(chartData) = 4 * Cardinality(EventMonths)
        /\ \A m \in EventMonths :
            LET CreatedIn(pr) == InMonth(pr.createdAt, m)
                MergedIn(pr)  == InMonth(pr.mergedAt, m)
                ClosedIn(pr)  == InMonth(pr.closedAt, m) /\ ~IsSet(pr.mergedAt)
                OpenAt(pr)    ==
                    /\ pr.createdAt <= LastTick(m)
                    /\ \/ ~IsSet(pr.closedAt) /\ ~IsSet(pr.mergedAt)
                       \/ IsSet(pr.mergedAt) /\ pr.mergedAt > LastTick(m)
                       \/ IsSet(pr.closedAt) /\ pr.closedAt > LastTick(m)
            IN  /\ \A t \in Range(TypeOrder) : Cardinality(DocsOf(chartData, m, t)) = 1
                /\ CountOf(chartData, m, "Created") = NumPRs(CreatedIn)
                /\ CountOf(chartData, m, "Merged")  = NumPRs(MergedIn)
                /\ CountOf(chartData, m, "Closed")  = NumPRs(ClosedIn)
                /\ CountOf(chartData, m, "Open")    = NumPRs(OpenAt)

\* Two records created in the first month, one of them merged on the first
\* day of the second month: the first month has Created 2 and Open 2.
C4_Witness ==
    /\ pc = "charted"
    /\ Len(prs) = 2
    /\ EventMonths = {0, 1}
    /\ prs[2].mergedAt = TicksPerMonth
    /\ CountOf(chartData, 0, "Created") = 2
    /\ CountOf(chartData, 0, "Merged") = 0
    /\ CountOf(chartData, 0, "Open") = 2
    /\ CountOf(chartData, 1, "Merged") = 1
    /\ CountOf(chartData, 1, "Open") = 1

LastCreationMonth == CHOOSE m \in MonthIndexes :
    /\ \E i \in PRIndexes : InMonth(prs[i].createdAt, m)
    /\ \A i \in PRIndexes : MonthIndex(prs[i].createdAt) <= m

\* The record has been closed or merged and nothing of it is still to come
\* after the end of month m.
SettledBy(pr, m) ==
    /\ IsSet(pr.closedAt) \/ IsSet(pr.mergedAt)
    /\ IsSet(pr.closedAt) => pr.closedAt <= LastTick(m)
    /\ IsSet(pr.mergedAt) => pr.mergedAt <= LastTick(m)

\* C5: in the output of the hybrid aggregator every Open count is >= 0; over
\* the output months at or after the last month in which a record was
\* created, the Open count never grows from a month to a later one; and it
\* is 0 in every output month by whose end each record has been closed or
\* merged, no close or merge of a record being still to come.
C5_OpenNonNegativeNonIncreasing ==
    (pc = "charted" /\ Len(prs) > 0) =>
        /\ \A m \in OutputMonths(chartData) : CountOf(chartData, m, "Open") >= 0
        /\ \A m1, m2 \in OutputMonths(chartData) :
              (LastCreationMonth <= m1 /\ m1 < m2) =>
                  CountOf(chartData, m1, "Open") >= CountOf(chartData, m2, "Open")
        /\ \A m \in OutputMonths(chartData) :
              (\A i \in PRIndexes : SettledBy(prs[i], m)) =>
                  CountOf(chartData, m, "Open") = 0

\* Both records created in the first month and closed in the second: Open
\* falls from 2 to 0 over the two months after the last creation.
C5_Witness ==
    /\ pc = "charted"
    /\ Len(prs) = 2
    /\ LastCreationMonth = 0
    /\ OutputMonths(chartData) = {0, 1}
    /\ \A i \in PRIndexes : SettledBy(prs[i], 1)
    /\ CountOf(chartData, 0, "Open") = 2
    /\ CountOf(chartData, 1, "Open") = 0

LatestOutputMonth(docs) ==
    CHOOSE m \in OutputMonths(docs) : \A n \in OutputMonths(docs) : n <= m

NeverClosedNorMerged(pr) == ~IsSet(pr.closedAt) /\ ~IsSet(pr.mergedAt)

\* C7: for every list of records that all have a createdAt, the Open count
\* of the most recent month of the hybrid chart output, which is the month
\* of the first documents of the output, is the number of stored records
\* that have neither closedAt nor mergedAt.
C7_LatestOpenIsCurrentOpen ==
    (pc = "charted" /\ Len(prs) > 0) =>
        /\ chartData[1].monthYear = MonthName(LatestOutputMonth(chartData))
        /\ chartData[4].monthYear = chartData[1].monthYear
        /\ chartData[4].type = "Open"
        /\ chartData[4].count = NumPRs(NeverClosedNorMerged)
        /\ CountOf(chartData, LatestOutputMonth(chartData), "Open")
              = NumPRs(NeverClosedNorMerged)

\* One record still open and one merged in the last month, both created in
\* the first month: the last month shows Open 1, the first month Open 2.
C7_Witness ==
    /\ pc = "charted"
    /\ Len(prs) = 2
    /\ NeverClosedNorMerged(prs[1])
    /\ InMonth(prs[1].createdAt, 0) /\ InMonth(prs[2].createdAt, 0)
    /\ InMonth(prs[2].mergedAt, NumMonths - 1)
    /\ CountOf(chartData, 0, "Open") = 2
    /\ CountOf(chartData, LatestOutputMonth(chartData), "Open") = 1

\* The (monthYear, type, count) triples of a response, in its order.
Triples(docs) == [i \in 1..Len(docs) |-> <<docs[i].monthYear, docs[i].type, docs[i].count>>]

CompareLabelDocs(a, b) ==
    IF a.monthYear # b.monthYear
    THEN LocaleCompare(b.monthYear, a.monthYear)
    ELSE b.count - a.count

\* Array.prototype.sort(CompareLabelDocs): a stable sort.
RECURSIVE SortLabelDocs(_)
SortLabelDocs(docs) ==
    IF Len(docs) <= 1 THEN docs
    ELSE LET front == SortLabelDocs(SubSeq(docs, 1, Len(docs) - 1))
             x     == docs[Len(docs)]
             k     == Cardinality({i \in 1..Len(front) : CompareLabelDocs(front[i], x) <= 0})
         IN  SubSeq(front, 1, k) \o <<x>> \o SubSeq(front, k + 1, Len(front))

\* Mutant of LabelCountsByMonthYear: the labels without a PR in the month are
\* written too, with the count 0.
LabelCountsByMonthYearWithZeros(records, specType, labelsField) ==
    LET LabelsOf(pr) == pr[labelsField] IN
    LET allMonths == Unique([i \in 1..Len(records) |-> getMonthYear(records[i].createdAt)])
        allLabels == Unique(Flatten([i \in 1..Len(records) |-> LabelsOf(records[i])]))
        sortedMonths == SortStrings(allMonths)
        \* labelCounts[label] after the loop over the PRs of the month: one
        \* increment for every place of the label in the labels of a PR
        labelCount(monthYear, label) ==
            Cardinality(UNION {
                {<<i, j>> : j \in {n \in 1..Len(LabelsOf(records[i])) :
                                      LabelsOf(records[i])[n] = label}} :
                i \in {n \in 1..Len(records) :
                          getMonthYear(records[n].createdAt) = monthYear}})
        monthDocs(monthYear) ==
            Flatten([j \in 1..Len(allLabels) |->
                IF labelCount(monthYear, allLabels[j]) >= 0
                THEN << [category  |-> Category(specType),
                         monthYear |-> monthYear,
                         type      |-> allLabels[j],
                         count     |-> labelCount(monthYear, allLabels[j])] >>
                ELSE <<>>])
    IN  SortLabelDocs(Flatten([i \in 1..Len(sortedMonths) |-> monthDocs(sortedMonths[i])]))

\* getCustomLabelsCountsByMonthYear and getRawLabelsCountsByMonthYear, which
\* read the labels from the field labelsField.
LabelCountsByMonthYear(records, specType, labelsField) ==
    LET LabelsOf(pr) == pr[labelsField] IN
    LET allMonths == Unique([i \in 1..Len(records) |-> getMonthYear(records[i].createdAt)])
        allLabels == Unique(Flatten([i \in 1..Len(records) |-> LabelsOf(records[i])]))
        sortedMonths == SortStrings(allMonths)
        \* labelCounts[label] after the loop over the PRs of the month: one
        \* increment for every place of the label in the labels of a PR
        labelCount(monthYear, label) ==
            Cardinality(UNION {
                {<<i, j>> : j \in {n \in 1..Len(LabelsOf(records[i])) :
                                      LabelsOf(records[i])[n] = label}} :
                i \in {n \in 1..Len(records) :
                          getMonthYear(records[n].createdAt) = monthYear}})
        monthDocs(monthYear) ==
            Flatten([j \in 1..Len(allLabels) |->
                IF labelCount(monthYear, allLabels[j]) > 0
                THEN << [category  |-> Category(specType),
                         monthYear |-> monthYear,
                         type      |-> allLabels[j],
                         count     |-> labelCount(monthYear, allLabels[j])] >>
                ELSE <<>>])
    IN  SortLabelDocs(Flatten([i \in 1..Len(sortedMonths) |-> monthDocs(sortedMonths[i])]))

getCustomLabelsCountsByMonthYear(records, specType) ==
    LabelCountsByMonthYear(records, specType, "customLabels")

getRawLabelsCountsByMonthYear(rawLabelsPrs, specType) ==
    LabelCountsByMonthYear(rawLabelsPrs, specType, "rawGithubLabels")

(***************************************************************************)
(* The combined 'all' collections: populateAllCollection and its two       *)
(* variants sum the documents of the three chart collections by the key    *)
(* monthYear-type.  monthlyTotals is the sequence of its entries in the    *)
(* order of insertion.                                                     *)
(***************************************************************************)
KeyOf(item) == item.monthYear \o "-" \o item.type

HasKey(monthlyTotals, key) == \E i \in 1..Len(monthlyTotals) : monthlyTotals[i].key = key

\* Mutant of AddToTotals: the count of the item replaces the total.
AddToTotalsOverwriting(monthlyTotals, item) ==
    LET key == KeyOf(item)
        mt  == IF HasKey(monthlyTotals, key) THEN monthlyTotals
               ELSE Append(monthlyTotals,
                        [key |-> key, category |-> "all", monthYear |-> item.monthYear,
                         type |-> item.type, count |-> 0])
    IN  [i \in 1..Len(mt) |->
            IF mt[i].key = key THEN [mt[i] EXCEPT !.count = item.count] ELSE mt[i]]

\* The body of the forEach over the documents of the three collections.
AddToTotals(monthlyTotals, item) ==
    LET key == KeyOf(item)
        mt  == IF HasKey(monthlyTotals, key) THEN monthlyTotals
               ELSE Append(monthlyTotals,
                        [key |-> key, category |-> "all", monthYear |-> item.monthYear,
                         type |-> item.type, count |-> 0])
    IN  [i \in 1..Len(mt) |->
            IF mt[i].key = key THEN [mt[i] EXCEPT !.count = @ + item.count] ELSE mt[i]]

RECURSIVE MonthlyTotals(_)
MonthlyTotals(items) ==
    IF Len(items) = 0 THEN <<>>
    ELSE AddToTotals(MonthlyTotals(SubSeq(items, 1, Len(items) - 1)), items[Len(items)])

\* Object.values(monthlyTotals), pushed to combinedData.
CombinedData(charts) ==
    LET mt == MonthlyTotals(charts["EIP"] \o charts["ERC"] \o charts["RIP"])
    IN  [i \in 1..Len(mt) |->
            [category |-> mt[i].category, monthYear |-> mt[i].monthYear,
             type |-> mt[i].type, count |-> mt[i].count]]

(***************************************************************************)
(* SpecCharts: one run of the chart job over a database the PR import job  *)
(* has filled.  main awaits the twelve populate calls one after the other. *)
(***************************************************************************)
MaxStoredPRs == 3

MainSteps ==
    << "PR-EIP", "PR-ERC", "PR-RIP", "PR-ALL",
       "Custom-EIP", "Custom-ERC", "Custom-RIP", "Custom-ALL",
       "Raw-EIP", "Raw-ERC", "Raw-RIP", "Raw-ALL", "complete" >>

AfterStep(step) == MainSteps[IndexOf(MainSteps, step) + 2]

\* PRs as the import job fetched them: two open-ended samples of title and
\* labels, and three life cycles (open, merged at the start of the second
\* month, created in the second month and closed without a merge).
FetchedTitles ==
    { [title |-> "Update EIP-1: clarify gas", githubLabels |-> <<"c-update">>],
      [title |-> "Add ERC: token",            githubLabels |-> <<"c-new", "e-review">>] }

FetchedDates ==
    { [createdAt |-> 0, closedAt |-> NullDate, mergedAt |-> NullDate],
      [createdAt |-> 0, closedAt |-> TicksPerMonth, mergedAt |-> TicksPerMonth],
      [createdAt |-> TicksPerMonth, closedAt |-> TicksPerMonth + 1, mergedAt |-> NullDate] }

FetchedPRs ==
    {[repo |-> k, title |-> t.title, githubLabels |-> t.githubLabels,
      createdAt |-> d.createdAt, closedAt |-> d.closedAt, mergedAt |-> d.mergedAt] :
        k \in Kinds, t \in FetchedTitles, d \in FetchedDates}

OfRepo(fetched, k) ==
    LET IsOfRepo(pr) == pr.repo = k IN SelectSeq(fetched, IsOfRepo)

\* The documents the import job stores in the PR collection of specType k.
StoredPRs(fetched, k) ==
    LET mine == OfRepo(fetched, k)
    IN  [i \in 1..Len(mine) |->
            [title        |-> mine[i].title,
             githubLabels |-> mine[i].githubLabels,
             createdAt    |-> mine[i].createdAt,
             closedAt     |-> mine[i].closedAt,
             mergedAt     |-> mine[i].mergedAt,
             specType     |-> k,
             customLabels |-> computeCustomLabels(mine[i].title, mine[i].githubLabels, k)]]

\* The documents processRawLabels stores in the raw-label collection of k.
StoredRawLabels(fetched, k) ==
    LET mine == OfRepo(fetched, k)
    IN  [i \in 1..Len(mine) |->
            [title           |-> mine[i].title,
             rawGithubLabels |-> mine[i].githubLabels,
             refinedLabels   |-> computeRefinedLabels(mine[i].githubLabels),
             createdAt       |-> mine[i].createdAt,
             closedAt        |-> mine[i].closedAt,
             mergedAt        |-> mine[i].mergedAt,
             specType        |-> k]]

InitCharts ==
    /\ pc = "PR-EIP"
    /\ ClassIdle
    /\ AggIdle
    /\ ExtIdle
    /\ \E fetched \in SeqsUpTo(FetchedPRs, MaxStoredPRs) :
          /\ prStore = [k \in Kinds |-> StoredPRs(fetched, k)]
          /\ rawStore = [k \in Kinds |-> StoredRawLabels(fetched, k)]
    /\ prCharts = [c \in ChartNames |-> <<>>]
    /\ customCharts = [c \in ChartNames |-> <<>>]
    /\ rawCharts = [c \in ChartNames |-> <<>>]

\* A populate call of main is done: its position moves to the next call.
MainContinues ==
    /\ pc' = AfterStep(pc)
    /\ UNCHANGED <<prStore, rawStore>>
    /\ UNCHANGED extVars
    /\ UNCHANGED classVars
    /\ UNCHANGED aggVars

populateChartCollection(specType) ==
    /\ pc = "PR-" \o specType
    /\ prCharts' = [prCharts EXCEPT ![specType] =
          IF Len(prStore[specType]) = 0 THEN @
          ELSE HybridStates(prStore[specType], specType)]
    /\ UNCHANGED <<customCharts, rawCharts>>
    /\ MainContinues

populateAllCollection ==
    /\ pc = "PR-ALL"
    /\ prCharts' = [prCharts EXCEPT !["ALL"] = SortStateDocs(CombinedData(prCharts))]
    /\ UNCHANGED <<customCharts, rawCharts>>
    /\ MainContinues

populateCustomLabelsCollection(specType) ==
    /\ pc = "Custom-" \o specType
    /\ customCharts' = [customCharts EXCEPT ![specType] =
          IF Len(prStore[specType]) = 0 THEN @
          ELSE getCustomLabelsCountsByMonthYear(prStore[specType], specType)]
    /\ UNCHANGED <<prCharts, rawCharts>>
    /\ MainContinues

populateAllCustomCollection ==
    /\ pc = "Custom-ALL"
    /\ customCharts' = [customCharts EXCEPT !["ALL"] = SortLabelDocs(CombinedData(customCharts))]
    /\ UNCHANGED <<prCharts, rawCharts>>
    /\ MainContinues

populateRawLabelsCollection(specType) ==
    /\ pc = "Raw-" \o specType
    /\ rawCharts' = [rawCharts EXCEPT ![specType] =
          IF Len(rawStore[specType]) = 0 THEN @
          ELSE getRawLabelsCountsByMonthYear(rawStore[specType], specType)]
    /\ UNCHANGED <<prCharts, customCharts>>
    /\ MainContinues

populateAllRawCollection ==
    /\ pc = "Raw-ALL"
    /\ rawCharts' = [rawCharts EXCEPT !["ALL"] = SortLabelDocs(CombinedData(rawCharts))]
    /\ UNCHANGED <<prCharts, customCharts>>
    /\ MainContinues

NextCharts ==
    \/ \E specType \in Kinds : populateChartCollection(specType)
    \/ populateAllCollection
    \/ \E specType \in Kinds : populateCustomLabelsCollection(specType)
    \/ populateAllCustomCollection
    \/ \E specType \in Kinds : populateRawLabelsCollection(specType)
    \/ populateAllRawCollection

SpecCharts == InitCharts /\ [][NextCharts]_vars

(***************************************************************************)
(* Properties of the combined collections (SpecCharts).                    *)
(***************************************************************************)
RECURSIVE SumOfKey(_, _, _)
SumOfKey(docs, monthYear, type) ==
    IF Len(docs) = 0 THEN 0
    ELSE (IF Head(docs).monthYear = monthYear /\ Head(docs).type = type
          THEN Head(docs).count ELSE 0)
         + SumOfKey(Tail(docs), monthYear, type)

KeysOf(docs) == {<<docs[i].monthYear, docs[i].type>> : i \in 1..Len(docs)}

AllIsSum(charts) ==
    LET keys == KeysOf(charts["EIP"]) \cup KeysOf(charts["ERC"]) \cup KeysOf(charts["RIP"])
        all  == charts["ALL"]
    IN  /\ KeysOf(all) = keys
        /\ Len(all) = Cardinality(keys)
        /\ \A i \in 1..Len(all) :
              /\ all[i].category = "all"
              /\ all[i].count = SumOfKey(charts["EIP"], all[i].monthYear, all[i].type)
                              + SumOfKey(charts["ERC"], all[i].monthYear, all[i].type)
                              + SumOfKey(charts["RIP"], all[i].monthYear, all[i].type)

StepsAfter(step) ==
    {MainSteps[i] : i \in (IndexOf(MainSteps, step) + 2)..Len(MainSteps)}

\* C6: once populateAllCollection has run, allPRCharts has exactly one
\* document for every (monthYear, type) that occurs in eipsPRCharts,
\* ercsPRCharts or ripsPRCharts, and none else, and the count of the
\* document is the sum of the counts of that key in the three collections,
\* a collection without the key adding 0; the same holds of allCustomCharts
\* once populateAllCustomCollection has run and of allRawCharts once
\* populateAllRawCollection has run.
C6_AllIsSumOfThree ==
    /\ pc \in StepsAfter("PR-ALL") => AllIsSum(prCharts)
    /\ pc \in StepsAfter("Custom-ALL") => AllIsSum(customCharts)
    /\ pc \in StepsAfter("Raw-ALL") => AllIsSum(rawCharts)

\* The job is complete; a key of the PR state charts is in the three
\* collections with the sum 3, a key of the raw-label charts is in two of
\* them only, and a key of the custom-label charts is in one only.
C6_Witness ==
    /\ pc = "complete"
    /\ \E i \in 1..Len(prCharts["ALL"]) :
          /\ prCharts["ALL"][i].count = 3
          /\ \A k \in Kinds :
                SumOfKey(prCharts[k], prCharts["ALL"][i].monthYear, prCharts["ALL"][i].type) = 1
    /\ \E i \in 1..Len(rawCharts["ALL"]) :
          /\ rawCharts["ALL"][i].count = 2
          /\ <<rawCharts["ALL"][i].monthYear, rawCharts["ALL"][i].type>> \notin KeysOf(rawCharts["RIP"])
    /\ \E i \in 1..Len(customCharts["ALL"]) :
          /\ <<customCharts["ALL"][i].monthYear, customCharts["ALL"][i].type>>
                \in KeysOf(customCharts["EIP"])
          /\ <<customCharts["ALL"][i].monthYear, customCharts["ALL"][i].type>>
                \notin (KeysOf(customCharts["ERC"]) \cup KeysOf(customCharts["RIP"]))

(***************************************************************************)
(* Further properties of the classifier (SpecCustom).                      *)
(***************************************************************************)

\* C11: for specType EIP the customLabels contain "New EIP" exactly when the
\* title starts with "Add EIP" and "c-new" is one of the raw labels, and
\* customLabels with "New EIP" also contain the refined label "New"; the
\* same for specType ERC with "Add ERC" and "New ERC".
C11_NewProposalIff ==
    (pc = "classified" /\ kind \in {"EIP", "ERC"}) =>
        /\ ("New " \o kind) \in Range(customLabels)
              <=> (/\ StartsWith(title, "Add " \o kind)
                   /\ "c-new" \in Range(githubLabels))
        /\ ("New " \o kind) \in Range(customLabels) => "New" \in Range(customLabels)

\* "Add EIP: gas metering" with the label c-new got "New" and "New EIP".
C11_Witness ==
    /\ pc = "classified"
    /\ kind = "EIP"
    /\ title = "Add EIP: gas metering"
    /\ githubLabels = <<"c-new">>
    /\ customLabels = <<"New", "New EIP">>

(***************************************************************************)
(* Further properties of the event-count aggregator (SpecAggregate).       *)
(***************************************************************************)

\* C12: in the response of the event-count aggregator the Open count of
\* every month is max(0, created - merged - closed), where created, merged
\* and closed are the numbers of records created, merged and closed without
\* a merge in that very month (the month's own Created, Merged and Closed
\* documents, which carry the last two negated); it is never negative.
C12_EventCountOpenPerBucket ==
    pc = "answered" =>
        \A m \in OutputMonths(graph1Data) :
            LET CreatedIn(pr) == InMonth(pr.createdAt, m)
                MergedIn(pr)  == InMonth(pr.mergedAt, m)
                ClosedIn(pr)  == InMonth(pr.closedAt, m) /\ ~IsSet(pr.mergedAt)
                own == NumPRs(CreatedIn) - NumPRs(MergedIn) - NumPRs(ClosedIn)
            IN  /\ Cardinality(DocsOf(graph1Data, m, "Open")) = 1
                /\ CountOf(graph1Data, m, "Open") = (IF own > 0 THEN own ELSE 0)
                /\ CountOf(graph1Data, m, "Open")
                      = Max(0, CountOf(graph1Data, m, "Created")
                               + CountOf(graph1Data, m, "Merged")
                               + CountOf(graph1Data, m, "Closed"))
                /\ CountOf(graph1Data, m, "Open") >= 0

\* Two records created in the first month and merged in the second: Open
\* is 2 in the first month and, 0 - 2 being negative, 0 in the second.
C12_Witness ==
    /\ pc = "answered"
    /\ Len(prs) = 2
    /\ \A i \in PRIndexes : InMonth(prs[i].createdAt, 0) /\ InMonth(prs[i].mergedAt, 1)
    /\ CountOf(graph1Data, 0, "Open") = 2
    /\ CountOf(graph1Data, 1, "Merged") = 0 - 2
    /\ CountOf(graph1Data, 1, "Open") = 0

(***************************************************************************)
(* Further properties of the chart job (SpecCharts).                       *)
(***************************************************************************)

\* C13: every document of eipsPRCharts, ercsPRCharts and ripsPRCharts of
\* type Merged or Closed has a count that is negative or zero, and every
\* document of type Created or Open has a count that is not negative.
\* The chart job writes the numbers of merged and closed PRs as they are,
\* so the statement fails as soon as a stored PR is merged or closed.
C13_MergedClosedNotPositive ==
    \A k \in Kinds : \A i \in 1..Len(prCharts[k]) :
        /\ prCharts[k][i].type \in {"Merged", "Closed"} => prCharts[k][i].count <= 0
        /\ prCharts[k][i].type \in {"Created", "Open"} => prCharts[k][i].count >= 0

MonthOfName(monthYear) == CHOOSE m \in MonthIndexes : MonthName(m) = monthYear

\* The number of places of the label in the labels of the records created in
\* month m.
RECURSIVE LabelOccurrences(_, _, _, _)
LabelOccurrences(records, labelsField, m, label) ==
    IF Len(records) = 0 THEN 0
    ELSE (IF InMonth(Head(records).createdAt, m)
          THEN Cardinality({j \in 1..Len(Head(records)[labelsField]) :
                               Head(records)[labelsField][j] = label})
          ELSE 0)
         + LabelOccurrences(Tail(records), labelsField, m, label)

LabelsIn(records, labelsField) ==
    UNION {Range(records[i][labelsField]) : i \in 1..Len(records)}

IsLabelHistogram(docs, records, labelsField) ==
    /\ \A i \in 1..Len(docs) :
          /\ docs[i].monthYear \in KnownMonthNames
          /\ docs[i].type \in LabelsIn(records, labelsField)
          /\ docs[i].count > 0
    /\ \A m \in MonthIndexes : \A label \in LabelsIn(records, labelsField) :
          LET n == LabelOccurrences(records, labelsField, m, label)
              found == {i \in 1..Len(docs) :
                           docs[i].monthYear = MonthName(m) /\ docs[i].type = label}
          IN  /\ n > 0 => Cardinality(found) = 1 /\ \A i \in found : docs[i].count = n
              /\ n = 0 => found = {}
    /\ \A i, j \in 1..Len(docs) :
          i < j =>
              /\ MonthOfName(docs[i].monthYear) >= MonthOfName(docs[j].monthYear)
              /\ docs[i].monthYear = docs[j].monthYear => docs[i].count >= docs[j].count

\* C14: once the chart job has populated the custom-label chart of a
\* specType from a PR collection that is not empty, the chart has a document
\* (month, label, n) exactly for the months and labels with n > 0, n being
\* the number of occurrences of the label in the customLabels of the PRs
\* created in the month, no document has the count 0, and the documents
\* are in the order of monthYear descending and, within a month, of count
\* descending; the same for the raw-label chart and rawGithubLabels.
C14_LabelHistogram ==
    \A k \in Kinds :
        /\ (pc \in StepsAfter("Custom-" \o k) /\ Len(prStore[k]) > 0) =>
              IsLabelHistogram(customCharts[k], prStore[k], "customLabels")
        /\ (pc \in StepsAfter("Raw-" \o k) /\ Len(rawStore[k]) > 0) =>
              IsLabelHistogram(rawCharts[k], rawStore[k], "rawGithubLabels")

\* Three EIP PRs, two created in the first month and one in the second: in
\* the raw-label chart the second month comes first, and in the first month
\* a label of both PRs (count 2) is the only document.
C14_Witness ==
    /\ pc = "complete"
    /\ Len(rawStore["EIP"]) = 3
    /\ Len(rawCharts["EIP"]) = 3
    /\ rawCharts["EIP"][1].monthYear = MonthName(1)
    /\ rawCharts["EIP"][3].monthYear = MonthName(0)
    /\ rawCharts["EIP"][3].count = 2
    /\ \E i \in 1..Len(customCharts["EIP"]) : customCharts["EIP"][i].count = 2

\* The months with a creation, a merge or a close without a merge.
EventCountMonths ==
    {m \in MonthIndexes : \E i \in PRIndexes :
        \/ InMonth(prs[i].createdAt, m)
        \/ InMonth(prs[i].mergedAt, m)
        \/ InMonth(prs[i].closedAt, m) /\ ~IsSet(prs[i].mergedAt)}

\* C15: the response of the event-count aggregator has, for every month
\* with a created, merged or closed-without-merge event and for no other
\* month, exactly four documents, one of each type; the months come in
\* descending order and the four documents of a month in the order
\* Created, Merged, Closed, Open.
C15_EventCountShape ==
    pc = "answered" =>
        /\ \A i \in 1..Len(graph1Data) : graph1Data[i].monthYear \in KnownMonthNames
        /\ OutputMonths(graph1Data) = EventCountMonths
        /\ Len(graph1Data) = 4 * Cardinality(EventCountMonths)
        /\ \A m \in EventCountMonths : \A t \in Range(TypeOrder) :
              Cardinality(DocsOf(graph1Data, m, t)) = 1
        /\ \A i \in 1..Len(graph1Data) :
              graph1Data[i].type = TypeOrder[((i - 1) % 4) + 1]
        /\ \A i, j \in 1..Len(graph1Data) :
              i < j => MonthOfName(graph1Data[i].monthYear)
                          >= MonthOfName(graph1Data[j].monthYear)

\* A record created in December 2023 and merged in January 2024: eight
\* documents, the four of 2024-01 before the four of 2023-12.
C15_Witness ==
    /\ pc = "answered"
    /\ Len(prs) = 1
    /\ Len(graph1Data) = 8
    /\ Triples(graph1Data) =
          << <<"2024-01", "Created", 0>>, <<"2024-01", "Merged", 0 - 1>>,
             <<"2024-01", "Closed", 0>>,  <<"2024-01", "Open", 0>>,
             <<"2023-12", "Created", 1>>, <<"2023-12", "Merged", 0>>,
             <<"2023-12", "Closed", 0>>,  <<"2023-12", "Open", 1>> >>

(***************************************************************************)
(* SpecNoCreatedAt: the two aggregators over PR collections in which PRs   *)
(* may have been stored with createdAt: null, as getAllPRs stores a PR     *)
(* whose created_at is missing.                                            *)
(***************************************************************************)
PRRecordsNullable ==
    [createdAt : TimeStamps \cup {NullDate},
     closedAt  : TimeStamps \cup {NullDate},
     mergedAt  : TimeStamps \cup {NullDate}]

InitNoCreatedAt ==
    /\ pc = "stored"
    /\ ClassIdle
    /\ DbEmpty
    /\ ExtIdle
    /\ prs \in SeqsUpTo(PRRecordsNullable, MaxPRs)
    /\ \E i \in 1..Len(prs) : prs[i].createdAt = NullDate
    /\ now = 0
    /\ graph1Data = <<>>
    /\ graph1Prev = <<>>
    /\ chartData = <<>>

SpecNoCreatedAt == InitNoCreatedAt /\ [][NextAggregate]_vars

\* The list without the records that have no createdAt.
WithCreatedAt(records) ==
    LET HasCreatedAt(pr) == IsSet(pr.createdAt) IN SelectSeq(records, HasCreatedAt)

\* C16: aggregating a list with records whose createdAt is null, by the
\* event-count aggregator or by the hybrid aggregator, gives the (monthYear,
\* type, count) triples of the list without these records.  The aggregators
\* do not skip such a record: it gets the bucket "Invalid Date", its close
\* and merge are counted, and the hybrid aggregator counts it as open.
C16_NullCreatedAtSkipped ==
    /\ pc = "answered" =>
          Triples(graph1Data) = Triples(EventCountStates(WithCreatedAt(prs), kind, 0))
    /\ pc = "charted" =>
          Triples(chartData) = Triples(IF Len(WithCreatedAt(prs)) = 0 THEN <<>>
                                       ELSE HybridStates(WithCreatedAt(prs), kind))

(***************************************************************************)
(* SpecAggregators: each of the four aggregators applied, as a function,   *)
(* to a list of stored documents of one specType, the empty list included. *)
(***************************************************************************)

\* Documents with the fields the four aggregators read.
LabelledPRs(k) ==
    {[createdAt       |-> d.createdAt,
      closedAt        |-> d.closedAt,
      mergedAt        |-> d.mergedAt,
      customLabels    |-> computeCustomLabels(t.title, t.githubLabels, k),
      rawGithubLabels |-> t.githubLabels] :
        t \in FetchedTitles, d \in FetchedDates}

InitAggregators ==
    /\ pc = "stored"
    /\ title = ""
    /\ githubLabels = <<>>
    /\ refinedLabels = <<>>
    /\ customLabels = <<>>
    /\ kind \in Kinds
    /\ DbEmpty
    /\ ExtIdle
    /\ prs \in SeqsUpTo(LabelledPRs(kind), MaxPRs)
    /\ now = 0
    /\ graph1Data = <<>>
    /\ graph1Prev = <<>>
    /\ chartData = <<>>

\* The call returns: chartData is the returned sequence.
Returned(aggregator, result) ==
    /\ pc' = aggregator
    /\ chartData' = result
    /\ UNCHANGED <<prs, now, graph1Data, graph1Prev>>
    /\ UNCHANGED classVars
    /\ UNCHANGED dbVars
    /\ UNCHANGED extVars

CallEventCount ==
    /\ pc = "stored"
    /\ Returned("event-count", EventCountStates(prs, kind, now))

CallHybrid ==
    /\ pc = "stored"
    /\ Returned("hybrid", HybridStates(prs, kind))

CallCustomLabels ==
    /\ pc = "stored"
    /\ Returned("custom-labels", getCustomLabelsCountsByMonthYear(prs, kind))

CallRawLabels ==
    /\ pc = "stored"
    /\ Returned("raw-labels", getRawLabelsCountsByMonthYear(prs, kind))

NextAggregators == CallEventCount \/ CallHybrid \/ CallCustomLabels \/ CallRawLabels

SpecAggregators == InitAggregators /\ [][NextAggregators]_vars

AggregatorNames == {"event-count", "hybrid", "custom-labels", "raw-labels"}

\* C17: each of the four aggregators (event-count, hybrid, custom-label
\* histogram, raw-label histogram), called with a list of zero records,
\* returns the empty sequence.
C17_EmptyInEmptyOut ==
    (pc \in AggregatorNames /\ Len(prs) = 0) => chartData = <<>>

\* The hybrid aggregator returned the empty sequence for zero records.
C17_Witness ==
    /\ pc = "hybrid"
    /\ prs = <<>>
    /\ chartData = <<>>

(***************************************************************************)
(* SpecGraphs: the three graph endpoints of the API server,                *)
(* GET /api/graph1|2|3/:specType, over the collections the import job left. *)
(***************************************************************************)

\* One character of String.prototype.toUpperCase.
UpperChar(c) ==
    IF \E i \in 1..Len(LowerCaseLetters) : SubSeq(LowerCaseLetters, i, i) = c
    THEN LET i == CHOOSE j \in 1..Len(LowerCaseLetters) :
                      SubSeq(LowerCaseLetters, j, j) = c
         IN  SubSeq(UpperCaseLetters, i, i)
    ELSE c

RECURSIVE ToUpperCase(_)
ToUpperCase(s) ==
    IF Len(s) = 0 THEN ""
    ELSE UpperChar(SubSeq(s, 1, 1)) \o ToUpperCase(SubSeq(s, 2, Len(s)))

\* models[specType.toUpperCase()]: the key of the collection, or undefined.
Undefined == "undefined"

\* Mutant of getModelBySpecType: models[specType], without toUpperCase.
getModelBySpecTypeCaseSensitive(specType) ==
    IF specType \in {"EIP", "ERC", "RIP"} THEN specType ELSE Undefined

getModelBySpecType(specType) ==
    IF ToUpperCase(specType) \in {"EIP", "ERC", "RIP"}
    THEN ToUpperCase(specType)
    ELSE Undefined

\* labels[item] = (labels[item] || 0) + 1, the keys in insertion order.
Bump(labels, item) ==
    IF \E i \in 1..Len(labels) : labels[i].label = item
    THEN [i \in 1..Len(labels) |->
            IF labels[i].label = item
            THEN [labels[i] EXCEPT !.count = @ + 1]
            ELSE labels[i]]
    ELSE Append(labels, [label |-> item, count |-> 1])

RECURSIVE BumpAll(_, _)
BumpAll(labels, items) ==
    IF Len(items) = 0 THEN labels
    ELSE BumpAll(Bump(labels, Head(items)), Tail(items))

\* One iteration of prs.forEach in aggregateByMonthYear, for an array field.
GroupPR(monthlyData, pr, groupByField) ==
    LET monthYear == getMonthYear(pr.createdAt)
        md == IF \E i \in 1..Len(monthlyData) : monthlyData[i].monthYear = monthYear
              THEN monthlyData
              ELSE Append(monthlyData, [monthYear |-> monthYear, labels |-> <<>>])
    IN  [i \in 1..Len(md) |->
            IF md[i].monthYear = monthYear
            THEN [md[i] EXCEPT !.labels = BumpAll(@, pr[groupByField])]
            ELSE md[i]]

RECURSIVE aggregateByMonthYear(_, _)
aggregateByMonthYear(records, groupByField) ==
    IF Len(records) = 0 THEN <<>>
    ELSE GroupPR(aggregateByMonthYear(SubSeq(records, 1, Len(records) - 1), groupByField),
                 records[Len(records)], groupByField)

\* Object.entries(monthlyData).map(...).sort(by monthYear, ascending).
LabelsByMonth(records, groupByField) ==
    LET md     == aggregateByMonthYear(records, groupByField)
        months == SortStrings([i \in 1..Len(md) |-> md[i].monthYear])
    IN  [i \in 1..Len(months) |->
            md[CHOOSE j \in 1..Len(md) : md[j].monthYear = months[i]]]

\* The endpoints, and the :specType parameters and date ranges of the
\* requests; Absent is a date the query string leaves out.
Graphs == {"graph1", "graph2", "graph3"}
SpecTypeParams == {"EIP", "eip", "Erc", "rIP", "eips", "all", "constructor"}
Absent == NullDate
RangeDates == {Absent, TicksPerMonth}

\* PR.find(query): the documents whose createdAt lies in the date range.
Find(collection, startDate, endDate) ==
    LET InRange(pr) ==
            /\ startDate # Absent => (pr.createdAt # NullDate /\ pr.createdAt >= startDate)
            /\ endDate # Absent => (pr.createdAt # NullDate /\ pr.createdAt <= endDate)
    IN  SelectSeq(collection, InRange)

InitGraphs ==
    /\ pc = "listening"
    /\ ClassIdle
    /\ AggIdle
    /\ \E fetched \in SeqsUpTo(FetchedPRs, 1) :
          /\ prStore = [k \in Kinds |-> StoredPRs(fetched, k)]
          /\ rawStore = [k \in Kinds |-> StoredRawLabels(fetched, k)]
    /\ prCharts = [c \in ChartNames |-> <<>>]
    /\ customCharts = [c \in ChartNames |-> <<>>]
    /\ rawCharts = [c \in ChartNames |-> <<>>]
    /\ response = NoResponse
    /\ aggCalls = <<>>
    /\ pipeline = [r \in Runs |-> "scheduled"]
    /\ child = [r \in Runs |-> [j \in Jobs |-> "none"]]
    /\ github = <<>>
    /\ MoreIdle

\* What the handler of one graph computes from the documents it found.
GraphData(graph, found, specType, clock) ==
    IF graph = "graph1" THEN EventCountStates(found, specType, clock)
    ELSE IF graph = "graph2" THEN LabelsByMonth(found, "customLabels")
    ELSE LabelsByMonth(found, "rawGithubLabels")

\* GET /api/<graph>/:specType?startDate=&endDate=; findOk is false when
\* PR.find rejects, which the handler catches.
GraphRequest(graph, specType, startDate, endDate, findOk) ==
    LET model == getModelBySpecType(specType)
        store == IF graph = "graph3" THEN rawStore ELSE prStore
        found == Find(store[model], startDate, endDate)
    IN  /\ pc \in {"listening"} \cup Graphs
        /\ Len(aggCalls) < MaxRequests
        /\ pc' = graph
        /\ kind' = specType
        /\ IF model = Undefined
           THEN /\ response' = [status |-> 400,
                                error  |-> "Invalid spec type. Use EIP, ERC, or RIP"]
                /\ UNCHANGED <<prs, aggCalls>>
           ELSE IF ~findOk
           THEN /\ response' = [status |-> 500, error |-> "Internal server error"]
                /\ UNCHANGED <<prs, aggCalls>>
           ELSE /\ prs' = found
                /\ aggCalls' = Append(aggCalls, specType)
                /\ response' = [status   |-> 200,
                                specType |-> ToUpperCase(specType),
                                data     |-> GraphData(graph, found, specType, now),
                                totalPRs |-> Len(found)]
        /\ UNCHANGED <<title, githubLabels, refinedLabels, customLabels>>
        /\ UNCHANGED <<now, graph1Data, graph1Prev, chartData>>
        /\ UNCHANGED dbVars
        /\ UNCHANGED <<pipeline, child, github>>
    /\ UNCHANGED moreVars

NextGraphs ==
    \E graph \in Graphs, specType \in SpecTypeParams,
       startDate \in RangeDates, endDate \in RangeDates, findOk \in BOOLEAN :
        GraphRequest(graph, specType, startDate, endDate, findOk)

SpecGraphs == InitGraphs /\ [][NextGraphs]_vars

\* s and t have the same letters, whatever their case.
SameLetters(s, t) ==
    /\ Len(s) = Len(t)
    /\ \A i \in 1..Len(s) :
          \E j \in 1..Len(UpperCaseLetters) :
              /\ SubSeq(s, i, i) \in {SubSeq(UpperCaseLetters, j, j),
                                      SubSeq(LowerCaseLetters, j, j)}
              /\ SubSeq(t, i, i) \in {SubSeq(UpperCaseLetters, j, j),
                                      SubSeq(LowerCaseLetters, j, j)}

\* The specType of the request is EIP, ERC or RIP in some letter case.
Recognized(specType) == \E k \in Kinds : SameLetters(specType, k)

\* C18: a graph request whose specType is EIP, ERC or RIP in any letter case
\* passes the validation (its answer is never 400), and its answer, given
\* unless the database query fails (status 500), has status 200 and carries
\* the specType in upper case, one of EIP, ERC, RIP; a request with any
\* other specType is answered with status 400, and the aggregation is
\* invoked for recognized specTypes only.
C18_SpecTypeValidation ==
    /\ pc \in Graphs =>
          IF Recognized(kind)
          THEN /\ response.status \in {200, 500}
               /\ response.status = 200 =>
                     /\ response.specType \in Kinds
                     /\ SameLetters(response.specType, kind)
                     /\ Len(aggCalls) > 0
                     /\ aggCalls[Len(aggCalls)] = kind
          ELSE response.status = 400
    /\ \A i \in 1..Len(aggCalls) : Recognized(aggCalls[i])

\* A request for rIP was answered, and after it a request for eip was
\* answered with the specType EIP and the aggregated documents.
C18_Witness ==
    /\ pc = "graph1"
    /\ kind = "eip"
    /\ response.status = 200
    /\ response.specType = "EIP"
    /\ Len(response.data) > 0
    /\ aggCalls = <<"rIP", "eip">>

(***************************************************************************)
(* SpecPipeline: the scheduler.  Every cron tick starts a run of           *)
(* runJobPipeline; a run starts its four jobs with runJob, which resolves  *)
(* or rejects in the callback exec calls when the child process has ended. *)
(***************************************************************************)

InitPipeline ==
    /\ pc = "scheduler"
    /\ ClassIdle
    /\ AggIdle
    /\ DbEmpty
    /\ ExtIdle

\* exec(`node ${scriptPath}`, callback): the child process of job j starts.
Exec(r, j) == [child EXCEPT ![r][j] = "running"]

\* The cron tick of run r: runJobPipeline runs up to its first await.
StartPipeline(r) ==
    /\ pipeline[r] = "scheduled"
    /\ r > 1 => pipeline[r - 1] # "scheduled"
    /\ pipeline' = [pipeline EXCEPT ![r] = "job1"]
    /\ child' = Exec(r, 1)
    /\ UNCHANGED <<pc, response, aggCalls, github>>
    /\ UNCHANGED moreVars
    /\ UNCHANGED classVars
    /\ UNCHANGED aggVars
    /\ UNCHANGED dbVars

\* The callback of exec: the child process of job j ended, with an error
\* (reject) or without one (resolve).
ChildExit(r, j, error) ==
    /\ child[r][j] = "running"
    /\ child' = [child EXCEPT ![r][j] = IF error THEN "failed" ELSE "exited"]
    /\ UNCHANGED <<pc, response, aggCalls, pipeline, github>>
    /\ UNCHANGED moreVars
    /\ UNCHANGED classVars
    /\ UNCHANGED aggVars
    /\ UNCHANGED dbVars

JobName(j) == <<"job1", "job2", "job3", "job4">>[j]

\* Mutant of Settled: runJob is called without await.
SettledWithoutAwait(r, j) == TRUE

\* await runJob(...): the promise of job j is settled.
Settled(r, j) == child[r][j] \in {"exited", "failed"}

\* Mutant of Resume: every runJob has a try block of its own, and the run
\* goes on with the next job after a failure.
ResumeAfterFailure(r, j) ==
    /\ pipeline[r] = JobName(j)
    /\ Settled(r, j)
    /\ IF j < 4
       THEN /\ pipeline' = [pipeline EXCEPT ![r] = JobName(j + 1)]
            /\ child' = Exec(r, j + 1)
       ELSE /\ pipeline' = [pipeline EXCEPT ![r] = "COMPLETED"]
            /\ UNCHANGED child
    /\ UNCHANGED <<pc, response, aggCalls, github>>
    /\ UNCHANGED moreVars
    /\ UNCHANGED classVars
    /\ UNCHANGED aggVars
    /\ UNCHANGED dbVars

\* runJobPipeline continues after await: the catch block when the promise
\* was rejected, the next runJob or the end of the try block otherwise.
Resume(r, j) ==
    /\ pipeline[r] = JobName(j)
    /\ Settled(r, j)
    /\ IF child[r][j] = "failed"
       THEN /\ pipeline' = [pipeline EXCEPT ![r] = "FAILED"]
            /\ UNCHANGED child
       ELSE IF j < 4
       THEN /\ pipeline' = [pipeline EXCEPT ![r] = JobName(j + 1)]
            /\ child' = Exec(r, j + 1)
       ELSE /\ pipeline' = [pipeline EXCEPT ![r] = "COMPLETED"]
            /\ UNCHANGED child
    /\ UNCHANGED <<pc, response, aggCalls, github>>
    /\ UNCHANGED moreVars
    /\ UNCHANGED classVars
    /\ UNCHANGED aggVars
    /\ UNCHANGED dbVars

NextPipeline ==
    \E r \in Runs :
        \/ StartPipeline(r)
        \/ \E j \in Jobs, error \in BOOLEAN : ChildExit(r, j, error)
        \/ \E j \in Jobs : Resume(r, j)

SpecPipeline == InitPipeline /\ [][NextPipeline]_vars

\* The jobs of run r whose child process is executing.
Executing(r) == {j \in Jobs : child[r][j] = "running"}

\* C19: within one run of the pipeline at most one job is executing at any
\* time, and the child process of a job has been started only if the child
\* process of the job before it has exited without an error.
C19_JobsNeverOverlap ==
    \A r \in Runs :
        /\ Cardinality(Executing(r)) <= 1
        /\ \A j \in Jobs \ {1} :
              child[r][j] # "none" =>
                  /\ child[r][j - 1] = "exited"
                  /\ pipeline[r] # "scheduled"

\* The fourth job of the first run is executing after its three
\* predecessors exited; the second run has started meanwhile.
C19_Witness ==
    /\ child[1] = <<"exited", "exited", "exited", "running">>
    /\ child[2][1] = "running"

(***************************************************************************)
(* SpecImport: main of the PR import job (fetch-github-prs.js).  Every     *)
(* await of main can reject; main().catch logs the error and exits.        *)
(***************************************************************************)
MaxFetchedPRs == 2

\* The repositories in the order main imports them.
Repos == <<"EIP", "ERC", "RIP">>

\* What the collections hold from the run before: one PR per repository.
PreviousPRs ==
    [i \in 1..Len(Repos) |->
        [repo |-> Repos[i], title |-> "Fix typo in EIP-1", githubLabels |-> <<>>,
         createdAt |-> 0, closedAt |-> NullDate, mergedAt |-> NullDate]]

InitImport ==
    /\ pc = "connect"
    /\ ClassIdle
    /\ AggIdle
    /\ \E previous \in {<<>>, PreviousPRs} :
          /\ prStore = [k \in Kinds |-> StoredPRs(previous, k)]
          /\ rawStore = [k \in Kinds |-> StoredRawLabels(previous, k)]
    /\ prCharts = [c \in ChartNames |-> <<>>]
    /\ customCharts = [c \in ChartNames |-> <<>>]
    /\ rawCharts = [c \in ChartNames |-> <<>>]
    /\ response = NoResponse
    /\ aggCalls = <<>>
    /\ pipeline = [r \in Runs |-> "scheduled"]
    /\ child = [r \in Runs |-> [j \in Jobs |-> "none"]]
    /\ github \in SeqsUpTo(FetchedPRs, MaxFetchedPRs)
    /\ MoreIdle

\* main().catch(e => { console.error(`[ERROR]`, e); process.exit(1); })
Exit1(step) == "exit(1) at " \o step

\* The position of main at an await of repository k.
At(k, call) == k \o " " \o call

\* After processRawLabels of k: the next repository, or the end of main.
AfterRepo(k) ==
    IF IndexOf(Repos, k) + 1 < Len(Repos)
    THEN At(Repos[IndexOf(Repos, k) + 2], "getAllPRs")
    ELSE "complete"

ImportUnchanged ==
    /\ UNCHANGED classVars
    /\ UNCHANGED <<now, graph1Data, graph1Prev, chartData>>
    /\ UNCHANGED <<prCharts, customCharts, rawCharts>>
    /\ UNCHANGED extVars

\* await mongoose.connect(...)
Connect(ok) ==
    /\ pc = "connect"
    /\ pc' = IF ok THEN At(Repos[1], "getAllPRs") ELSE Exit1("connect")
    /\ UNCHANGED <<prs, prStore, rawStore>>
    /\ ImportUnchanged

\* Mutant of GetAllPRs: the collection is emptied before the fetch.
GetAllPRsAfterDelete(k, ok) ==
    /\ pc = At(k, "getAllPRs")
    /\ IF ok
       THEN /\ prs' = StoredPRs(github, k)
            /\ pc' = At(k, "deleteMany")
       ELSE /\ pc' = Exit1(pc)
            /\ UNCHANGED prs
    /\ prStore' = [prStore EXCEPT ![k] = <<>>]
    /\ UNCHANGED rawStore
    /\ ImportUnchanged

\* await getAllPRs({repo}) and the map that adds customLabels; getAllPRs
\* throws when GitHub answers with an error or the request fails.
GetAllPRs(k, ok) ==
    /\ pc = At(k, "getAllPRs")
    /\ IF ok
       THEN /\ prs' = StoredPRs(github, k)
            /\ pc' = At(k, "deleteMany")
       ELSE /\ pc' = Exit1(pc)
            /\ UNCHANGED prs
    /\ UNCHANGED <<prStore, rawStore>>
    /\ ImportUnchanged

\* await Model.deleteMany({})
DeleteMany(k, ok) ==
    /\ pc = At(k, "deleteMany")
    /\ IF ok
       THEN /\ prStore' = [prStore EXCEPT ![k] = <<>>]
            /\ pc' = At(k, "insertMany")
       ELSE /\ pc' = Exit1(pc)
            /\ UNCHANGED prStore
    /\ UNCHANGED <<prs, rawStore>>
    /\ ImportUnchanged

\* await Model.insertMany(prs); a failing insert stops after the first
\* `inserted` documents.
InsertMany(k, ok, inserted) ==
    /\ pc = At(k, "insertMany")
    /\ IF ok
       THEN /\ prStore' = [prStore EXCEPT ![k] = prs]
            /\ pc' = At(k, "raw deleteMany")
       ELSE /\ inserted < Len(prs) \/ inserted = 0
            /\ prStore' = [prStore EXCEPT ![k] = SubSeq(prs, 1, inserted)]
            /\ pc' = Exit1(pc)
    /\ UNCHANGED <<prs, rawStore>>
    /\ ImportUnchanged

\* processRawLabels: await RawModel.deleteMany({})
RawDeleteMany(k, ok) ==
    /\ pc = At(k, "raw deleteMany")
    /\ IF ok
       THEN /\ rawStore' = [rawStore EXCEPT ![k] = <<>>]
            /\ pc' = At(k, "raw insertMany")
       ELSE /\ pc' = Exit1(pc)
            /\ UNCHANGED rawStore
    /\ UNCHANGED <<prs, prStore>>
    /\ ImportUnchanged

\* processRawLabels: await RawModel.insertMany(rawLabelsPRs)
RawInsertMany(k, ok, inserted) ==
    /\ pc = At(k, "raw insertMany")
    /\ IF ok
       THEN /\ rawStore' = [rawStore EXCEPT ![k] = StoredRawLabels(github, k)]
            /\ pc' = AfterRepo(k)
       ELSE /\ inserted < Len(prs) \/ inserted = 0
            /\ rawStore' = [rawStore EXCEPT ![k] =
                               SubSeq(StoredRawLabels(github, k), 1, inserted)]
            /\ pc' = Exit1(pc)
    /\ UNCHANGED <<prs, prStore>>
    /\ ImportUnchanged

NextImport ==
    \E ok \in BOOLEAN :
        \/ Connect(ok)
        \/ \E k \in Kinds :
              \/ GetAllPRs(k, ok)
              \/ DeleteMany(k, ok)
              \/ RawDeleteMany(k, ok)
              \/ \E inserted \in 0..MaxFetchedPRs :
                    \/ InsertMany(k, ok, inserted)
                    \/ RawInsertMany(k, ok, inserted)

SpecImport == InitImport /\ [][NextImport]_vars

\* The PRs GitHub serves for k are in the two collections of k.
Imported(k) ==
    /\ prStore[k] = StoredPRs(github, k)
    /\ rawStore[k] = StoredRawLabels(github, k)

ImportCalls ==
    {"getAllPRs", "deleteMany", "insertMany", "raw deleteMany", "raw insertMany"}

\* C20: when the import job has ended after fetching or storing the PRs of
\* one repository failed, the repositories that were still to be imported
\* have been imported in that run.
C20_RemainingReposImported ==
    \A i \in 1..Len(Repos), call \in ImportCalls :
        pc = Exit1(At(Repos[i], call)) =>
            \A j \in (i + 1)..Len(Repos) : Imported(Repos[j])

\* C21: in a run that ended in the FAILED state exactly one job failed, the
\* jobs before it exited, and no job after it was started; a run never
\* completes after a failure; and a failed run does not stop the scheduler:
\* the next run can start, and a run that started has started its job 1.
C21_FailureEndsRunOnly ==
    \A r \in Runs :
        /\ \A k \in Jobs :
              child[r][k] = "failed" =>
                  /\ pipeline[r] \in {JobName(k), "FAILED"}
                  /\ \A j \in Jobs : j > k => child[r][j] = "none"
                  /\ \A j \in Jobs : j < k => child[r][j] = "exited"
        /\ pipeline[r] = "FAILED" => \E k \in Jobs : child[r][k] = "failed"
        /\ pipeline[r] = "COMPLETED" => \A j \in Jobs : child[r][j] = "exited"
        /\ pipeline[r] # "scheduled" => child[r][1] # "none"
        /\ (r > 1 /\ pipeline[r - 1] = "FAILED" /\ pipeline[r] = "scheduled")
              => ENABLED StartPipeline(r)

\* Job 2 of the first run failed and the run is FAILED with jobs 3 and 4 not
\* started; the second run has started after it and is at its job 1.
C21_Witness ==
    /\ pipeline[1] = "FAILED"
    /\ child[1] = <<"exited", "failed", "none", "none">>
    /\ pipeline[2] = "job1"
    /\ child[2][1] = "running"

\* C22: at most one run of the pipeline is in progress at any time.
C22_AtMostOneRunInProgress ==
    Cardinality({r \in Runs : pipeline[r] \notin {"scheduled", "COMPLETED", "FAILED"}}) <= 1

(***************************************************************************)
(* SpecConcurrentImport: MaxImports PR import jobs (child processes of     *)
(* overlapping pipeline runs) against the same database.  pc and prs are   *)
(* functions of the job here: each job has its own position and its own    *)
(* fetched list.                                                           *)
(***************************************************************************)
MaxImports == 2
MaxServedPRs == 1
Imports == 1..MaxImports

InitConcurrentImport ==
    /\ pc = [p \in Imports |-> "connect"]
    /\ prs = [p \in Imports |-> <<>>]
    /\ ClassIdle
    /\ now = 0
    /\ graph1Data = <<>>
    /\ graph1Prev = <<>>
    /\ chartData = <<>>
    /\ DbEmpty
    /\ response = NoResponse
    /\ aggCalls = <<>>
    /\ pipeline = [r \in Runs |-> "scheduled"]
    /\ child = [r \in Runs |-> [j \in Jobs |-> "none"]]
    /\ github \in SeqsUpTo(FetchedPRs, MaxServedPRs)
    /\ MoreIdle

\* Job p moves to position next.
Goto(p, next) == pc' = [pc EXCEPT ![p] = next]

JobConnect(p, ok) ==
    /\ pc[p] = "connect"
    /\ Goto(p, IF ok THEN At(Repos[1], "getAllPRs") ELSE Exit1("connect"))
    /\ UNCHANGED <<prs, prStore, rawStore>>
    /\ ImportUnchanged

JobGetAllPRs(p, k, ok) ==
    /\ pc[p] = At(k, "getAllPRs")
    /\ IF ok
       THEN /\ prs' = [prs EXCEPT ![p] = StoredPRs(github, k)]
            /\ Goto(p, At(k, "deleteMany"))
       ELSE /\ Goto(p, Exit1(pc[p]))
            /\ UNCHANGED prs
    /\ UNCHANGED <<prStore, rawStore>>
    /\ ImportUnchanged

JobDeleteMany(p, k, ok) ==
    /\ pc[p] = At(k, "deleteMany")
    /\ IF ok
       THEN /\ prStore' = [prStore EXCEPT ![k] = <<>>]
            /\ Goto(p, At(k, "insertMany"))
       ELSE /\ Goto(p, Exit1(pc[p]))
            /\ UNCHANGED prStore
    /\ UNCHANGED <<prs, rawStore>>
    /\ ImportUnchanged

\* insertMany adds the documents to those the collection holds.
JobInsertMany(p, k, ok, inserted) ==
    /\ pc[p] = At(k, "insertMany")
    /\ IF ok
       THEN /\ prStore' = [prStore EXCEPT ![k] = @ \o prs[p]]
            /\ Goto(p, At(k, "raw deleteMany"))
       ELSE /\ inserted < Len(prs[p]) \/ inserted = 0
            /\ prStore' = [prStore EXCEPT ![k] = @ \o SubSeq(prs[p], 1, inserted)]
            /\ Goto(p, Exit1(pc[p]))
    /\ UNCHANGED <<prs, rawStore>>
    /\ ImportUnchanged

JobRawDeleteMany(p, k, ok) ==
    /\ pc[p] = At(k, "raw deleteMany")
    /\ IF ok
       THEN /\ rawStore' = [rawStore EXCEPT ![k] = <<>>]
            /\ Goto(p, At(k, "raw insertMany"))
       ELSE /\ Goto(p, Exit1(pc[p]))
            /\ UNCHANGED rawStore
    /\ UNCHANGED <<prs, prStore>>
    /\ ImportUnchanged

JobRawInsertMany(p, k, ok, inserted) ==
    /\ pc[p] = At(k, "raw insertMany")
    /\ IF ok
       THEN /\ rawStore' = [rawStore EXCEPT ![k] = @ \o StoredRawLabels(github, k)]
            /\ Goto(p, AfterRepo(k))
       ELSE /\ inserted < Len(prs[p]) \/ inserted = 0
            /\ rawStore' = [rawStore EXCEPT ![k] =
                               @ \o SubSeq(StoredRawLabels(github, k), 1, inserted)]
            /\ Goto(p, Exit1(pc[p]))
    /\ UNCHANGED <<prs, prStore>>
    /\ ImportUnchanged

NextConcurrentImport ==
    \E p \in Imports, ok \in BOOLEAN :
        \/ JobConnect(p, ok)
        \/ \E k \in Kinds :
              \/ JobGetAllPRs(p, k, ok)
              \/ JobDeleteMany(p, k, ok)
              \/ JobRawDeleteMany(p, k, ok)
              \/ \E inserted \in 0..MaxServedPRs :
                    \/ JobInsertMany(p, k, ok, inserted)
                    \/ JobRawInsertMany(p, k, ok, inserted)

SpecConcurrentImport == InitConcurrentImport /\ [][NextConcurrentImport]_vars

\* C23: once all import jobs running against the same database have
\* finished without an error, however their steps interleaved, every PR
\* collection and raw-label collection holds exactly the records of one
\* fetch of its repository, each PR once.
C23_OneFetchAfterInterleaving ==
    (\A p \in Imports : pc[p] = "complete") => \A k \in Kinds : Imported(k)

\* C24: when getAllPRs of repository k throws because GitHub answered a page
\* request with a response that is not OK, the PR collection and the
\* raw-label collection of k hold exactly the documents they held before the
\* job started: nothing was deleted and nothing was inserted.
C24_FailedFetchLeavesCollections ==
    \A previous \in {<<>>, PreviousPRs} :
        (/\ prStore = [k \in Kinds |-> StoredPRs(previous, k)]
         /\ rawStore = [k \in Kinds |-> StoredRawLabels(previous, k)])
        => [](\A k \in Kinds :
                 pc = Exit1(At(k, "getAllPRs")) =>
                     /\ prStore[k] = StoredPRs(previous, k)
                     /\ rawStore[k] = StoredRawLabels(previous, k))

\* The fetch of ERCs failed after EIPs were imported: the ERC collections
\* hold the documents of the run before, not those GitHub serves now.
C24_Witness ==
    /\ pc = Exit1(At("ERC", "getAllPRs"))
    /\ Imported("EIP")
    /\ prStore["ERC"] = StoredPRs(PreviousPRs, "ERC")
    /\ rawStore["ERC"] = StoredRawLabels(PreviousPRs, "ERC")
    /\ Len(StoredPRs(github, "ERC")) > 0

(***************************************************************************)
(* SpecChartsRerun: the chart job over chart collections an earlier run of *)
(* the job filled from the PR collections of that time.                    *)
(***************************************************************************)
MaxEarlierPRs == 1

\* What a run of the chart job over empty chart collections leaves for the
\* stored documents docs of one specType.
ChartsOf(docs, specType, labelsField) ==
    IF Len(docs) = 0 THEN <<>>
    ELSE IF labelsField = "" THEN HybridStates(docs, specType)
    ELSE LabelCountsByMonthYear(docs, specType, labelsField)

\* The per-specType charts with their combined collection.
WithAll(charts, sorted) ==
    [c \in ChartNames |-> IF c = "ALL" THEN sorted ELSE charts[c]]

InitChartsRerun ==
    /\ pc = "PR-EIP"
    /\ ClassIdle
    /\ AggIdle
    /\ ExtIdle
    /\ \E fetched \in SeqsUpTo(FetchedPRs, MaxEarlierPRs) :
          /\ prStore = [k \in Kinds |-> StoredPRs(fetched, k)]
          /\ rawStore = [k \in Kinds |-> StoredRawLabels(fetched, k)]
    /\ \E earlier \in SeqsUpTo(FetchedPRs, MaxEarlierPRs) :
          LET pr  == [k \in Kinds |-> ChartsOf(StoredPRs(earlier, k), k, "")]
              cus == [k \in Kinds |-> ChartsOf(StoredPRs(earlier, k), k, "customLabels")]
              raw == [k \in Kinds |->
                         ChartsOf(StoredRawLabels(earlier, k), k, "rawGithubLabels")]
          IN  /\ prCharts = WithAll(pr, SortStateDocs(CombinedData(pr)))
              /\ customCharts = WithAll(cus, SortLabelDocs(CombinedData(cus)))
              /\ rawCharts = WithAll(raw, SortLabelDocs(CombinedData(raw)))

SpecChartsRerun == InitChartsRerun /\ [][NextCharts]_vars

\* C25: after the chart job has completed, every per-specType chart
\* collection equals the aggregation of the current documents of its source
\* collection, which is empty when the source collection is empty.
C25_ChartsEqualAggregation ==
    pc = "complete" =>
        \A k \in Kinds :
            /\ prCharts[k] = HybridStates(prStore[k], k)
            /\ customCharts[k] = getCustomLabelsCountsByMonthYear(prStore[k], k)
            /\ rawCharts[k] = getRawLabelsCountsByMonthYear(rawStore[k], k)

(***************************************************************************)
(* Balance of the hybrid aggregator (SpecAggregate).                       *)
(***************************************************************************)

\* No close or merge precedes the creation, and closedAt equals mergedAt
\* when both are set.
Consistent(pr) ==
    /\ IsSet(pr.createdAt)
    /\ IsSet(pr.closedAt) => pr.closedAt >= pr.createdAt
    /\ IsSet(pr.mergedAt) => pr.mergedAt >= pr.createdAt
    /\ (IsSet(pr.closedAt) /\ IsSet(pr.mergedAt)) => pr.closedAt = pr.mergedAt

\* The sum of Created - Merged - Closed over the output months up to M.
RECURSIVE Balance(_, _)
Balance(docs, M) ==
    IF M < 0 THEN 0
    ELSE Balance(docs, M - 1) +
         (IF M \in OutputMonths(docs)
          THEN CountOf(docs, M, "Created") - CountOf(docs, M, "Merged")
                   - CountOf(docs, M, "Closed")
          ELSE 0)

\* C26: for a list of records in which no close or merge precedes the
\* creation and closedAt equals mergedAt when both are set, the hybrid
\* aggregator's Open of every output month M is the sum, over the output
\* months up to M, of Created - Merged - Closed.
C26_HybridBalance ==
    (pc = "charted" /\ \A i \in PRIndexes : Consistent(prs[i])) =>
        \A M \in OutputMonths(chartData) :
            CountOf(chartData, M, "Open") = Balance(chartData, M)

\* Two records created in the first month, one merged (and closed) and
\* one only merged in the second month: Open goes from 2 to 0.
C26_Witness ==
    /\ pc = "charted"
    /\ Len(prs) = 2
    /\ \A i \in PRIndexes : Consistent(prs[i])
    /\ prs[1].closedAt = TicksPerMonth /\ prs[1].mergedAt = TicksPerMonth
    /\ ~IsSet(prs[2].closedAt) /\ prs[2].mergedAt = TicksPerMonth + 1
    /\ CountOf(chartData, 0, "Open") = 2
    /\ CountOf(chartData, 1, "Merged") = 2
    /\ CountOf(chartData, 1, "Open") = 0

(***************************************************************************)
(* The classifier of the snapshot job (snapshot-open-prs.js), a copy of    *)
(* the import job's, and SpecSnapshotLabels: a PR is classified and stored *)
(* by the import job, then read and classified again by the snapshot job.  *)
(***************************************************************************)

\* Mutant of RipUpdateRegexSnapshot: the pattern without "remove deprecated".
RipUpdateRegexSnapshotShort(s) ==
    LET lc == ToLowerCase(s)
    IN  \/ Includes(lc, "update rip-")
        \/ Includes(lc, "rename")
        \/ Includes(lc, "review required")

\* /update rip-|rename|review required|remove deprecated/i
RipUpdateRegexSnapshot(s) ==
    LET lc == ToLowerCase(s)
    IN  \/ Includes(lc, "update rip-")
        \/ Includes(lc, "rename")
        \/ Includes(lc, "review required")
        \/ Includes(lc, "remove deprecated")

\* The branch of the snapshot job's computeCustomLabels for kind "RIP".
RipTitleRulesSnapshot(out, ttl) ==
    LET titleLC == ToLowerCase(ttl)
        out1 == PushIf(out,  RipTypoRegex(titleLC), "Typo Fix")
        out2 == PushIf(out1, RipUpdateRegexSnapshot(titleLC), "Update")
        out3 == PushIf(out2, RipNewRegex(titleLC), "New RIP")
    IN  out3

\* computeCustomLabels of the snapshot job; its refined labels and its
\* EIP and ERC branches are those of the import job, character by character.
computeCustomLabelsSnapshot(ttl, labels, k) ==
    LET out0 == RefinedPart(labels)
        out  == IF k = "EIP" THEN EipErcTitleRules(out0, ttl, labels, "EIP")
                ELSE IF k = "ERC" THEN EipErcTitleRules(out0, ttl, labels, "ERC")
                ELSE IF k = "RIP" THEN RipTitleRulesSnapshot(out0, ttl)
                ELSE out0
        uniqueOut == Unique(out)
    IN  IF Len(uniqueOut) = 0 THEN <<"Misc">> ELSE uniqueOut

SnapshotTitles ==
    Titles \cup {"Remove deprecated precompile", "Rename: remove deprecated file",
                 "Fix typo, REMOVE DEPRECATED link"}

InitSnapshotLabels ==
    /\ pc = "fetched"
    /\ title \in SnapshotTitles
    /\ kind \in Kinds
    /\ githubLabels \in SeqsUpTo(PRLabelNames, MaxLabels)
    /\ refinedLabels = <<>>
    /\ customLabels = <<>>
    /\ AggIdle
    /\ DbEmpty
    /\ ExtIdle

\* runSnapshots: prs.map(pr => ({ ...pr, customLabels:
\* computeCustomLabels(pr, kind) })) and SNAP.insertOne, for the one PR.
SnapshotEnrich ==
    /\ pc = "classified"
    /\ pc' = "snapshotted"
    /\ snapStore' = [snapStore EXCEPT ![kind] =
          << [month |-> getMonthYear(0),
              prs   |-> << [title        |-> title,
                            githubLabels |-> githubLabels,
                            customLabels |->
                                computeCustomLabelsSnapshot(title, githubLabels, kind)] >>] >>]
    /\ UNCHANGED classVars
    /\ UNCHANGED aggVars
    /\ UNCHANGED dbVars
    /\ UNCHANGED <<response, aggCalls, pipeline, child, github>>
    /\ UNCHANGED <<apiFetch, statsStore, contribStore>>

NextSnapshotLabels == ClassifyPR \/ SnapshotEnrich

SpecSnapshotLabels == InitSnapshotLabels /\ [][NextSnapshotLabels]_vars

\* The customLabels the snapshot job computed for the PR.
SnapshotLabels == snapStore[kind][1].prs[1].customLabels

Without(labels, x) == LET Keep(l) == l # x IN SelectSeq(labels, Keep)

\* The title reaches the alternative only the snapshot job's pattern has.
OnlyRemoveDeprecated(ttl) ==
    /\ Includes(ToLowerCase(ttl), "remove deprecated")
    /\ ~Includes(ToLowerCase(ttl), "update rip-")
    /\ ~Includes(ToLowerCase(ttl), "rename")
    /\ ~Includes(ToLowerCase(ttl), "review required")

\* C28 (as stated): for every PR and every specType the customLabels the
\* snapshot job computes equal the customLabels the import job stored.
C28_AsStated_ClassifiersAgree ==
    pc = "snapshotted" => SnapshotLabels = customLabels

\* C28 (amended): the two classifiers agree for EIP and ERC, and for RIP
\* unless the title contains "remove deprecated" (in any case) and none of
\* "update rip-", "rename", "review required", and the stored labels have no
\* "Update" (from a c-update label); in that case the snapshot job's labels
\* contain "Update", and apart from "Update" and the fallback "Misc" the two
\* are the same.
C28_ClassifiersAgreeExceptRemoveDeprecated ==
    pc = "snapshotted" =>
        IF /\ kind = "RIP"
           /\ OnlyRemoveDeprecated(title)
           /\ ~ArrayIncludes(customLabels, "Update")
        THEN /\ ArrayIncludes(SnapshotLabels, "Update")
             /\ Without(SnapshotLabels, "Update") = Without(customLabels, "Misc")
        ELSE SnapshotLabels = customLabels

\* A RIP pull request stored as Misc is an Update in the snapshot.
C28_Witness ==
    /\ pc = "snapshotted"
    /\ kind = "RIP"
    /\ title = "Remove deprecated precompile"
    /\ githubLabels = <<>>
    /\ customLabels = <<"Misc">>
    /\ SnapshotLabels = <<"Update">>

(***************************************************************************)
(* SpecSnapshots: main of the snapshot job (snapshot-open-prs.js):         *)
(* runSnapshots for EIP, ERC and RIP, one await after the other.  The last *)
(* tick of a month is an instant of the month's last day after 00:00; the  *)
(* ticks before it lie before that day.                                    *)
(***************************************************************************)
MaxSnapshotPRs == 2

getFullYear(date) == AbsMonth(date) \div MonthsPerYear
getMonth(date) == AbsMonth(date) % MonthsPerYear

\* new Date(y, m + 1, 0): 00:00 of the last day of the month with index m,
\* an instant after every tick but the last one of the month.
LastDayMidnight(y, m) == FirstOfMonth(y, m + 1) - 2

\* `${y}-${String(m + 1).padStart(2, "0")}`
MonthKey(y, m) == NumStr(y) \o "-" \o PadStart(NumStr(m + 1), 2)

\* The stored PR documents the snapshot job reads: one title, every life
\* cycle in which the close does not precede the creation.
SnapshotPRs(k) ==
    {[title        |-> "Update EIP-1: clarify gas",
      githubLabels |-> <<"c-update">>,
      createdAt    |-> d[1],
      closedAt     |-> d[2],
      specType     |-> k,
      customLabels |-> computeCustomLabels("Update EIP-1: clarify gas", <<"c-update">>, k)] :
        d \in {e \in TimeStamps \X (TimeStamps \cup {NullDate}) :
                    e[2] = NullDate \/ e[2] >= e[1]}}

\* A snapshot document of an earlier run.
StaleSnapshot == [month |-> "2023-11", prs |-> <<>>]

InitSnapshots ==
    /\ pc = "EIP deleteMany"
    /\ ClassIdle
    /\ prs = <<>>
    /\ now \in {NumMonths * TicksPerMonth - 1, NumMonths * TicksPerMonth}
    /\ graph1Data = <<>>
    /\ graph1Prev = <<>>
    /\ chartData = <<>>
    /\ \E k0 \in Kinds :
          \E docs \in SeqsUpTo(SnapshotPRs(k0), MaxSnapshotPRs) :
              prStore = [k \in Kinds |-> IF k = k0 THEN docs ELSE <<>>]
    /\ rawStore = [k \in Kinds |-> <<>>]
    /\ prCharts = [c \in ChartNames |-> <<>>]
    /\ customCharts = [c \in ChartNames |-> <<>>]
    /\ rawCharts = [c \in ChartNames |-> <<>>]
    /\ response = NoResponse
    /\ aggCalls = <<>>
    /\ pipeline = [r \in Runs |-> "scheduled"]
    /\ child = [r \in Runs |-> [j \in Jobs |-> "none"]]
    /\ github = <<>>
    /\ snapStore \in {[k \in Kinds |-> <<>>], [k \in Kinds |-> <<StaleSnapshot>>]}
    /\ apiFetch = NotCalled
    /\ statsStore = <<>>
    /\ contribStore = <<>>

SnapshotUnchanged ==
    /\ UNCHANGED classVars
    /\ UNCHANGED <<prs, now, graph1Data, graph1Prev, chartData>>
    /\ UNCHANGED dbVars
    /\ UNCHANGED <<response, aggCalls, pipeline, child, github>>
    /\ UNCHANGED <<apiFetch, statsStore, contribStore>>

\* main after runSnapshots(k): the next kind, or the end.
AfterKind(k) ==
    IF IndexOf(Repos, k) + 1 < Len(Repos)
    THEN At(Repos[IndexOf(Repos, k) + 2], "deleteMany")
    ELSE "complete"

\* await SNAP.deleteMany({})
SnapDeleteMany(k, ok) ==
    /\ pc = At(k, "deleteMany")
    /\ IF ok
       THEN /\ snapStore' = [snapStore EXCEPT ![k] = <<>>]
            /\ pc' = At(k, "findOne")
       ELSE /\ pc' = Exit1(pc)
            /\ UNCHANGED snapStore
    /\ SnapshotUnchanged

\* PR.findOne().sort({ createdAt: 1 }): a document of the least createdAt.
FirstPR(docs) ==
    docs[CHOOSE i \in 1..Len(docs) :
            \A j \in 1..Len(docs) :
                \/ docs[i].createdAt < docs[j].createdAt
                \/ (docs[i].createdAt = docs[j].createdAt /\ i <= j)]

\* await PR.findOne()...: without a PR runSnapshots returns, with one the
\* loop starts at the month of its creation.
SnapFindOne(k, ok) ==
    /\ pc = At(k, "findOne")
    /\ pc' = IF ~ok THEN Exit1(pc)
             ELSE IF Len(prStore[k]) = 0 THEN AfterKind(k)
             ELSE LET firstPR == FirstPR(prStore[k])
                  IN  At(k, MonthKey(getFullYear(firstPR.createdAt),
                                     getMonth(firstPR.createdAt)))
    /\ UNCHANGED snapStore
    /\ SnapshotUnchanged

\* The PRs open as of snapshotDate: the query of PR.find.
OpenAsOf(docs, snapshotDate) ==
    LET Matches(pr) ==
            /\ pr.createdAt # NullDate
            /\ pr.createdAt <= snapshotDate
            /\ (pr.closedAt = NullDate \/ pr.closedAt > snapshotDate)
    IN  SelectSeq(docs, Matches)

\* The position after the iteration of month (y, m) of the two for loops.
AfterMonth(k, y, m) ==
    LET currYear  == getFullYear(now)
        currMonth == getMonth(now)
    IN  IF m + 1 <= (IF y = currYear THEN currMonth ELSE MonthsPerYear - 1)
        THEN At(k, MonthKey(y, m + 1))
        ELSE IF y + 1 <= currYear THEN At(k, MonthKey(y + 1, 0))
        ELSE AfterKind(k)

\* One iteration of the loops of runSnapshots: the month (y, m).  The
\* document is stored without its snapshotDate string, the day of
\* snapshotDate in UTC.
SnapMonth(k, y, m, ok) ==
    LET isCurrent    == y = getFullYear(now) /\ m = getMonth(now)
        snapshotDate == IF isCurrent THEN now ELSE LastDayMidnight(y, m)
        found        == OpenAsOf(prStore[k], snapshotDate)
        enrichedPRs  == [i \in 1..Len(found) |->
                            [found[i] EXCEPT !.customLabels =
                                computeCustomLabelsSnapshot(found[i].title,
                                                            found[i].githubLabels, k)]]
    IN  /\ pc = At(k, MonthKey(y, m))
        /\ IF ~ok
           THEN /\ pc' = Exit1(pc)
                /\ UNCHANGED snapStore
           ELSE /\ pc' = AfterMonth(k, y, m)
                /\ snapStore' = [snapStore EXCEPT ![k] =
                      IF Len(found) = 0 THEN @
                      ELSE Append(@, [month |-> MonthKey(y, m),
                                      prs   |-> enrichedPRs])]
        /\ SnapshotUnchanged

\* The months the loops can reach.
LoopYears == getFullYear(0)..getFullYear(NumMonths * TicksPerMonth)

NextSnapshots ==
    \E k \in Kinds, ok \in BOOLEAN :
        \/ SnapDeleteMany(k, ok)
        \/ SnapFindOne(k, ok)
        \/ \E y \in LoopYears, m \in 0..(MonthsPerYear - 1) : SnapMonth(k, y, m, ok)

SpecSnapshots == InitSnapshots /\ [][NextSnapshots]_vars

\* The PRs of docs open at the end of the month with index m: created on or
\* before its last day, at any time of day, and not closed by then.
OpenAtEndOfMonth(docs, m) ==
    LET WasOpen(pr) ==
            /\ pr.createdAt <= LastTick(m)
            /\ ~(IsSet(pr.closedAt) /\ pr.closedAt <= LastTick(m))
    IN  SelectSeq(docs, WasOpen)

SnapshotsOf(k, m) ==
    LET OfMonth(doc) == doc.month = MonthName(m) IN SelectSeq(snapStore[k], OfMonth)

StripLabels(docs) ==
    [i \in 1..Len(docs) |->
        [title |-> docs[i].title, createdAt |-> docs[i].createdAt,
         closedAt |-> docs[i].closedAt]]

\* C27: after the snapshot job has completed, the snapshot of every month
\* before the current month holds exactly the PRs that were open at the end
\* of that month, and a month without such a PR has no snapshot document.
C27_SnapshotIsOpenAtMonthEnd ==
    pc = "complete" =>
        \A k \in Kinds, m \in MonthIndexes :
            m < MonthIndex(now) =>
                LET open == OpenAtEndOfMonth(prStore[k], m)
                    docs == SnapshotsOf(k, m)
                IN  IF Len(open) = 0 THEN Len(docs) = 0
                    ELSE /\ Len(docs) = 1
                         /\ StripLabels(docs[1].prs) = StripLabels(open)

(***************************************************************************)
(* SpecFetch: fetchGitHubAPI(url, retries), the copy of the scheduler      *)
(* (index.js) and the copy of the contributor script (part_000).  A value  *)
(* of JSON is a record with its type; apiFetch holds the call: the attempt *)
(* of the for loop, the responses received, the waits made and the         *)
(* outcome.                                                                *)
(***************************************************************************)
MaxRetries == 3

FetchCopies == {"index.js", "part_000"}

EmptyArray == [type |-> "array", items |-> <<>>]

\* What `return` at the end of the function body yields: no value.
NoValue == [type |-> "undefined"]

\* The bodies response.json() parses.
ParsedBodies ==
    {EmptyArray,
     [type |-> "array", items |-> <<"octocat">>],
     [type |-> "object", items |-> <<"message">>]}

\* What await fetch(url) and await response.json() can give: a rejected
\* fetch, a status without a body read, a body that is parsed, a body that
\* is not JSON.
Responses ==
    {[status |-> "rejected"], [status |-> "202"], [status |-> "403"],
     [status |-> "500"], [status |-> "200", body |-> [type |-> "invalid"]]}
    \cup {[status |-> "200", body |-> b] : b \in ParsedBodies}

\* response.ok
Ok(resp) == resp.status \in {"200", "202"}

\* The attempt ends in `return`: OK, not 202, and response.json() resolves.
Answers(resp) == resp.status = "200" /\ resp.body.type # "invalid"

\* setTimeout(resolve, ...) of the branch taken, in milliseconds.
Delay(copy, resp) ==
    IF resp.status = "202"
    THEN (IF copy = "index.js" THEN 10000 ELSE 5000)
    ELSE (IF copy = "index.js" THEN 5000 ELSE 2000)

\* Mutant of LastAttempt: attempt > retries.
LastAttemptNever(attempt, retries) == attempt > retries

\* attempt === retries, !(attempt < retries)
LastAttempt(attempt, retries) == attempt = retries

\* Array.isArray(data) && data.length !== 0
NonEmptyArray(data) == data.type = "array" /\ Len(data.items) > 0

\* Mutant of Returns: return data, in both copies.
ReturnsData(copy, data) == data

\* return data; the copy of part_000 returns [] for a body that is not an
\* array with elements.
Returns(copy, data) ==
    IF copy = "part_000" /\ ~NonEmptyArray(data) THEN EmptyArray ELSE data

InitFetch ==
    /\ pc = "idle"
    /\ ClassIdle
    /\ AggIdle
    /\ DbEmpty
    /\ ExtIdle

FetchUnchanged ==
    /\ UNCHANGED classVars
    /\ UNCHANGED aggVars
    /\ UNCHANGED dbVars
    /\ UNCHANGED <<response, aggCalls, pipeline, child, github>>
    /\ UNCHANGED <<snapStore, statsStore, contribStore>>

\* The head of the for loop: the body runs while attempt <= retries, after
\* the loop the function returns no value.
ForLoop(f) ==
    IF f.attempt <= f.retries THEN f
    ELSE [f EXCEPT !.status = "returned", !.result = NoValue]

\* fetchGitHubAPI(url, retries) is called.
FetchCall(copy, retries) ==
    /\ pc = "idle"
    /\ apiFetch = NotCalled
    /\ apiFetch' = ForLoop([status    |-> "fetching",
                            copy      |-> copy,
                            retries   |-> retries,
                            attempt   |-> 1,
                            responses |-> <<>>,
                            waits     |-> <<>>,
                            result    |-> NoValue])
    /\ pc' = "fetchGitHubAPI"
    /\ FetchUnchanged

\* One iteration of the for loop: the request, its answer resp, and the
\* return, the throw or the wait that follows.
FetchAttempt(resp) ==
    /\ pc = "fetchGitHubAPI"
    /\ apiFetch.status = "fetching"
    /\ LET f    == [apiFetch EXCEPT !.responses = Append(@, resp)]
           wait == [f EXCEPT !.waits = Append(@, Delay(f.copy, resp)),
                             !.attempt = @ + 1]
       IN  apiFetch' =
             IF Answers(resp)
             THEN [f EXCEPT !.status = "returned",
                            !.result = Returns(f.copy, resp.body)]
             ELSE IF LastAttempt(f.attempt, f.retries)
                  THEN [f EXCEPT !.status = "thrown"]
                  ELSE ForLoop(wait)
    /\ pc' = pc
    /\ FetchUnchanged

NextFetch ==
    \/ \E copy \in FetchCopies, retries \in 0..MaxRetries : FetchCall(copy, retries)
    \/ \E resp \in Responses : FetchAttempt(resp)

SpecFetch == InitFetch /\ [][NextFetch]_vars

FetchCalled == apiFetch # NotCalled /\ apiFetch.retries >= 1

FetchDone == apiFetch.status \in {"returned", "thrown"}

\* The requests made: one per response received.
Requests == Len(apiFetch.responses)

\* The parts of the claim that do not depend on the value returned.
FetchTerminatesWithinRetries ==
    /\ Requests <= apiFetch.retries
    /\ apiFetch.status = "fetching" =>
          /\ apiFetch.attempt = Requests + 1
          /\ apiFetch.attempt <= apiFetch.retries
    /\ \A i \in 1..Requests :
          Answers(apiFetch.responses[i]) =>
              (i = Requests /\ apiFetch.status = "returned")
    /\ apiFetch.status = "returned" =>
          /\ Requests >= 1
          /\ Answers(apiFetch.responses[Requests])
          /\ apiFetch.result # NoValue
    /\ apiFetch.status = "thrown" =>
          /\ Requests = apiFetch.retries
          /\ \A i \in 1..Requests : ~Answers(apiFetch.responses[i])
    /\ Len(apiFetch.waits) = (IF FetchDone THEN Requests - 1 ELSE Requests)
    /\ \A i \in 1..Len(apiFetch.waits) :
          \A copy \in FetchCopies :
              apiFetch.copy = copy =>
                  apiFetch.waits[i] = Delay(copy, apiFetch.responses[i])

\* C29 as stated: a call with retries >= 1 makes at most retries requests;
\* it returns the parsed body of the first response that is OK and not 202,
\* throws after the last attempt when there is none, never returns without
\* a value, and every wait is the fixed delay of its branch.
C29_AsStated_ReturnsParsedBody ==
    FetchCalled =>
        /\ FetchTerminatesWithinRetries
        /\ apiFetch.status = "returned" =>
              apiFetch.result = apiFetch.responses[Requests].body

\* C29, amended: as stated, except that the copy of part_000 returns the
\* empty array, not the parsed body, when the body is not an array with at
\* least one element.
C29_FetchRetries ==
    FetchCalled =>
        /\ FetchTerminatesWithinRetries
        /\ apiFetch.status = "returned" =>
              LET data == apiFetch.responses[Requests].body
              IN  /\ (apiFetch.copy = "index.js" \/ NonEmptyArray(data)) =>
                        apiFetch.result = data
                  /\ (apiFetch.copy = "part_000" /\ ~NonEmptyArray(data)) =>
                        apiFetch.result = EmptyArray

C29_Witness ==
    /\ FetchCalled
    /\ apiFetch.copy = "part_000"
    /\ apiFetch.retries = MaxRetries
    /\ apiFetch.status = "returned"
    /\ Requests = MaxRetries
    /\ apiFetch.responses[1].status = "202"
    /\ apiFetch.responses[2].status = "500"
    /\ apiFetch.responses[Requests].body.type = "object"
    /\ apiFetch.result = EmptyArray

(***************************************************************************)
(* SpecContributors: fetchAllContributorData of the contributor job        *)
(* (index.js) and the contributors API (api/contributors-server.js,        *)
(* part_004), a separate process that reads the same two collections,      *)
(* contributors (contribStore) and repository_stats (statsStore).          *)
(***************************************************************************)
MaxContributors == 2

\* const repositories = [{ name: 'EIPs' }, { name: 'ERCs' }, { name: 'RIPs' }]
repositories == <<"EIPs", "ERCs", "RIPs">>

Logins == <<"alice", "bob">>

\* processComprehensiveContributorData: the documents of the first n
\* contributors of repository repoName, no two with the same total_commits.
ProcessedContributors(repoName, n) ==
    [i \in 1..n |->
        [login         |-> Logins[i],
         repository    |-> repoName,
         total_commits |-> 4 * i + IndexOf(repositories, repoName)]]

RECURSIVE TotalCommits(_)
TotalCommits(contributors) ==
    IF Len(contributors) = 0 THEN 0
    ELSE Head(contributors).total_commits + TotalCommits(Tail(contributors))

\* generateEnhancedRepoStats(contributors, repoName)
generateEnhancedRepoStats(contributors, repoName) ==
    [repository         |-> repoName,
     total_contributors |-> Len(contributors),
     total_commits      |-> TotalCommits(contributors)]

\* The collections after an earlier run that stored EIPs only, or empty.
InitContributors ==
    /\ pc = At(repositories[1], "fetch")
    /\ ClassIdle
    /\ AggIdle
    /\ DbEmpty
    /\ response = NoResponse
    /\ aggCalls = <<>>
    /\ pipeline = [r \in Runs |-> "scheduled"]
    /\ child = [r \in Runs |-> [j \in Jobs |-> "none"]]
    /\ github = <<>>
    /\ snapStore = [k \in Kinds |-> <<>>]
    /\ apiFetch = NotCalled
    /\ \E n \in {0, 1} :
          /\ contribStore = ProcessedContributors(repositories[1], n)
          /\ statsStore = IF n = 0 THEN <<>>
                          ELSE <<generateEnhancedRepoStats(contribStore, repositories[1])>>

ContributorsUnchanged ==
    /\ UNCHANGED classVars
    /\ UNCHANGED aggVars
    /\ UNCHANGED dbVars
    /\ UNCHANGED <<aggCalls, pipeline, child>>
    /\ UNCHANGED <<snapStore, apiFetch>>

\* The next iteration of `for (const repo of repositories)`, or the end.
NextRepository(repoName) ==
    IF IndexOf(repositories, repoName) + 1 < Len(repositories)
    THEN At(repositories[IndexOf(repositories, repoName) + 2], "fetch")
    ELSE "complete"

\* Steps 1 to 4 of an iteration: the contributors and their statistics are
\* fetched and processed; `continue` when there are none or a fetch throws.
FetchContributorData(repoName, n, ok) ==
    /\ pc = At(repoName, "fetch")
    /\ IF ok /\ n > 0
       THEN /\ github' = ProcessedContributors(repoName, n)
            /\ pc' = At(repoName, "deleteMany")
       ELSE /\ github' = <<>>
            /\ pc' = NextRepository(repoName)
    /\ UNCHANGED <<statsStore, contribStore, response>>
    /\ ContributorsUnchanged

\* storeContributors: await CONTRIBUTOR.deleteMany({ repository: repoName })
ContributorsDeleteMany(repoName, ok) ==
    /\ pc = At(repoName, "deleteMany")
    /\ IF ok
       THEN /\ contribStore' =
                  LET Other(doc) == doc.repository # repoName
                  IN  SelectSeq(contribStore, Other)
            /\ pc' = At(repoName, "insertMany")
            /\ UNCHANGED github
       ELSE /\ pc' = NextRepository(repoName)
            /\ github' = <<>>
            /\ UNCHANGED contribStore
    /\ UNCHANGED <<statsStore, response>>
    /\ ContributorsUnchanged

\* storeContributors: await CONTRIBUTOR.insertMany(batch), one batch.
ContributorsInsertMany(repoName, ok) ==
    /\ pc = At(repoName, "insertMany")
    /\ IF ok
       THEN /\ contribStore' = contribStore \o github
            /\ pc' = At(repoName, "storeRepoStats")
            /\ UNCHANGED github
       ELSE /\ pc' = NextRepository(repoName)
            /\ github' = <<>>
            /\ UNCHANGED contribStore
    /\ UNCHANGED <<statsStore, response>>
    /\ ContributorsUnchanged

\* REPO_STATS.findOneAndUpdate({ repository }, repoStats, { upsert: true })
Upsert(docs, repoStats) ==
    IF \E i \in 1..Len(docs) : docs[i].repository = repoStats.repository
    THEN LET i == CHOOSE j \in 1..Len(docs) :
                      /\ docs[j].repository = repoStats.repository
                      /\ \A h \in 1..(j - 1) : docs[h].repository # repoStats.repository
         IN  [docs EXCEPT ![i] = repoStats]
    ELSE Append(docs, repoStats)

\* await storeRepoStats(repoStats), the end of the iteration.
storeRepoStats(repoName, ok) ==
    /\ pc = At(repoName, "storeRepoStats")
    /\ statsStore' = IF ok
                     THEN Upsert(statsStore, generateEnhancedRepoStats(github, repoName))
                     ELSE statsStore
    /\ pc' = NextRepository(repoName)
    /\ github' = <<>>
    /\ UNCHANGED <<contribStore, response>>
    /\ ContributorsUnchanged

\* The values of :repo and of ?repository= ("" when the parameter is absent).
RepositoryParams == {"EIPs", "ERCs", "RIPs", "EIPS", "all", ""}

\* getRepositoryFilter(repo): the documents the filter selects.
getRepositoryFilter(docs, repo) ==
    IF repo = "" \/ repo = "all" THEN docs
    ELSE LET Selected(doc) == doc.repository = ToUpperCase(repo)
         IN  SelectSeq(docs, Selected)

\* .sort({ total_commits: -1 })
RECURSIVE SortByCommits(_)
SortByCommits(docs) ==
    IF Len(docs) = 0 THEN <<>>
    ELSE LET i == CHOOSE j \in 1..Len(docs) :
                      \A h \in 1..Len(docs) :
                          \/ docs[j].total_commits > docs[h].total_commits
                          \/ (docs[j].total_commits = docs[h].total_commits /\ j <= h)
         IN  <<docs[i]>> \o SortByCommits(SubSeq(docs, 1, i - 1) \o
                                          SubSeq(docs, i + 1, Len(docs)))

\* GET /api/contributors/stats/:repo
GetRepoStats(repo) ==
    /\ repo # ""
    /\ LET Selected(doc) == doc.repository = ToUpperCase(repo)
           stats == SelectSeq(statsStore, Selected)
       IN  response' =
             IF Len(stats) = 0
             THEN [status  |-> 404,
                   request |-> "/api/contributors/stats/" \o repo,
                   success |-> FALSE,
                   data    |-> <<>>]
             ELSE [status  |-> 200,
                   request |-> "/api/contributors/stats/" \o repo,
                   success |-> TRUE,
                   data    |-> <<stats[1]>>]
    /\ UNCHANGED <<pc, github, statsStore, contribStore>>
    /\ ContributorsUnchanged

\* GET /api/contributors?repository=...: limit 50, page 1, sorted by
\* total_commits, descending.
GetContributors(repository) ==
    /\ LET contributors == SortByCommits(getRepositoryFilter(contribStore, repository))
       IN  response' = [status  |-> 200,
                        request |-> "/api/contributors?repository=" \o repository,
                        success |-> TRUE,
                        data    |-> SubSeq(contributors, 1,
                                           IF Len(contributors) < 50
                                           THEN Len(contributors) ELSE 50)]
    /\ UNCHANGED <<pc, github, statsStore, contribStore>>
    /\ ContributorsUnchanged

NextContributors ==
    \/ \E repoName \in Range(repositories), ok \in BOOLEAN :
          \/ \E n \in 0..MaxContributors : FetchContributorData(repoName, n, ok)
          \/ ContributorsDeleteMany(repoName, ok)
          \/ ContributorsInsertMany(repoName, ok)
          \/ storeRepoStats(repoName, ok)
    \/ \E repo \in RepositoryParams :
          \/ GetRepoStats(repo)
          \/ GetContributors(repo)

SpecContributors == InitContributors /\ [][NextContributors]_vars

\* The statistics stored for repository R, and its stored contributors.
StoredStats(R) == LET OfR(doc) == doc.repository = R IN SelectSeq(statsStore, OfR)

StoredContributors(R) == LET OfR(doc) == doc.repository = R IN SelectSeq(contribStore, OfR)

\* C30: once the job has stored the statistics of R, a request of
\* /api/contributors/stats/R is answered 200 with the statistics stored for
\* R, and a request of /api/contributors?repository=R with the contributors
\* stored for R.
C30_StoreThenRead ==
    [][\A R \in Range(repositories) :
          (/\ pc' = pc
           /\ Len(StoredStats(R)) > 0
           /\ response' # NoResponse) =>
              /\ response'.request = "/api/contributors/stats/" \o R =>
                    /\ response'.status = 200
                    /\ response'.data = <<StoredStats(R)[1]>>
              /\ response'.request = "/api/contributors?repository=" \o R =>
                    /\ response'.status = 200
                    /\ response'.data = SortByCommits(StoredContributors(R))]_vars

====
